---- MODULE Spec2Model ----
(***************************************************************************)
(* A model of the ingestion engine of aftershootco/ingest: the filter      *)
(* predicate, the rename-sequence generator, the structure dispatch with   *)
(* its pending-sidecar set, the space preflight and the walk/copy/backup   *)
(* loop, in its two build personalities (src/ingest/async.rs and           *)
(* src/ingest/sync.rs).                                                    *)
(*                                                                         *)
(* Paths are sequences of components (strings); an absolute path starts    *)
(* with the component "/".  File names are real strings, and the           *)
(* std::path operations the code calls (extension, file_stem,              *)
(* with_extension, parent, strip_prefix, join, canonicalize) are computed  *)
(* on them character by character.                                         *)
(*                                                                         *)
(* What the model takes from outside the code:                             *)
(*  - the free space of a volume is one number per run (fs2::free_space    *)
(*    is not charged for the bytes the run copies);                        *)
(*  - one entry of the walk is handled in one step, so the cancellation    *)
(*    flag changes between entries, not inside one;                        *)
(*  - sync.rs does not sort its walk; the model yields its entries in the  *)
(*    order of their names;                                                *)
(*  - exists_plus_one and same_disk are called by the code but defined in  *)
(*    no file of src/: the first follows the specification (name.ext,      *)
(*    name-1.ext, name-2.ext ...), the second is an input.                 *)
(***************************************************************************)
EXTENDS Integers, Sequences, FiniteSets, TLC

\* ------------------------------------------------------------------------
\* Characters and strings
\* ------------------------------------------------------------------------

\* The characters file names of the model are made of, in ASCII order.
AsciiTable == " -.0123456789ABCDEFGHIJKLMNOPQRSTUVWXYZ_abcdefghijklmnopqrstuvwxyz"

UpperChars == "ABCDEFGHIJKLMNOPQRSTUVWXYZ"

LowerChars == "abcdefghijklmnopqrstuvwxyz"

CharAt(s, i) == SubSeq(s, i, i)

\* The table of a string: each of its characters to its position.
RECURSIVE PositionsFrom(_, _)
PositionsFrom(s, i) ==
    IF i > Len(s) THEN [c \in {} |-> 0]
    ELSE (CharAt(s, i) :> i) @@ PositionsFrom(s, i + 1)

AsciiRank == PositionsFrom(AsciiTable, 1)

UpperRank == PositionsFrom(UpperChars, 1)

\* The rank of a character in the byte order sort_by_file_name compares by.
Ord(c) == AsciiRank[c]

\* u8::to_ascii_lowercase on one character.
LowerChar(c) ==
    IF c \in DOMAIN UpperRank THEN CharAt(LowerChars, UpperRank[c]) ELSE c

\* OsStr::to_ascii_lowercase.
RECURSIVE to_ascii_lowercase(_)
to_ascii_lowercase(s) ==
    IF Len(s) = 0 THEN ""
    ELSE LowerChar(CharAt(s, 1)) \o to_ascii_lowercase(SubSeq(s, 2, Len(s)))

\* Byte-wise lexicographic order of two file names (OsStr::cmp).
RECURSIVE StrLess(_, _)
StrLess(a, b) ==
    IF Len(b) = 0 THEN FALSE
    ELSE IF Len(a) = 0 THEN TRUE
    ELSE IF CharAt(a, 1) = CharAt(b, 1)
         THEN StrLess(SubSeq(a, 2, Len(a)), SubSeq(b, 2, Len(b)))
         ELSE Ord(CharAt(a, 1)) < Ord(CharAt(b, 1))

\* The position of the last "." of a name, 0 when it has none.
RECURSIVE LastDot(_, _)
LastDot(s, i) ==
    IF i = 0 THEN 0
    ELSE IF CharAt(s, i) = "." THEN i
    ELSE LastDot(s, i - 1)

starts_with(s, c) == Len(s) > 0 /\ CharAt(s, 1) = c

\* ------------------------------------------------------------------------
\* std::path on file names.  An optional value is <<>> (None) or <<v>>.
\* ------------------------------------------------------------------------

None == <<>>

Some(v) == <<v>>

IsSome(o) == Len(o) = 1

\* Path::extension of a file name: the part after the last ".", None when
\* the name has no "." or only a leading one (".profile").
NameExtension(name) ==
    LET d == LastDot(name, Len(name))
    IN  IF name = ".." \/ d <= 1 THEN None
        ELSE Some(SubSeq(name, d + 1, Len(name)))

\* Path::file_stem of a file name: the part before the last ".", the whole
\* name when extension is None.
NameStem(name) ==
    LET d == LastDot(name, Len(name))
    IN  IF name = ".." \/ d <= 1 THEN name
        ELSE SubSeq(name, 1, d - 1)

\* A component that is a file name (Component::Normal).
IsNormal(c) == c \notin {"/", "..", "."}

\* Path::file_name: None for the empty path, the root and a path ending in "..".
file_name(p) ==
    IF Len(p) = 0 \/ ~IsNormal(p[Len(p)]) THEN None ELSE Some(p[Len(p)])

extension(p) ==
    IF IsSome(file_name(p)) THEN NameExtension(file_name(p)[1]) ELSE None

file_stem(p) ==
    IF IsSome(file_name(p)) THEN Some(NameStem(file_name(p)[1])) ELSE None

\* Path::with_extension: the path unchanged when it has no file name.
with_extension(p, e) ==
    IF ~IsSome(file_name(p)) THEN p
    ELSE SubSeq(p, 1, Len(p) - 1) \o <<NameStem(p[Len(p)]) \o "." \o e>>

\* Path::parent: None for the empty path and for the root.
parent(p) ==
    IF Len(p) = 0 \/ p = <<"/">> THEN None ELSE Some(SubSeq(p, 1, Len(p) - 1))

IsAbsolute(p) == Len(p) > 0 /\ p[1] = "/"

\* Path::join: an absolute right-hand side replaces the left one.
join(p, q) == IF IsAbsolute(q) THEN q ELSE p \o q

IsPrefix(pre, p) == Len(pre) <= Len(p) /\ SubSeq(p, 1, Len(pre)) = pre

\* Path::strip_prefix: Err (None) when pre is not a prefix of p.
strip_prefix(p, pre) ==
    IF IsPrefix(pre, p) THEN Some(SubSeq(p, Len(pre) + 1, Len(p))) ELSE None

\* The process's working directory, which a relative path is resolved in.
Cwd == <<"/", "home">>

\* The canonical form of a path (fs::canonicalize without the existence check):
\* a relative path is made absolute.
Absolute(p) == IF IsAbsolute(p) THEN p ELSE Cwd \o p

\* ------------------------------------------------------------------------
\* Static tables
\* ------------------------------------------------------------------------

RAW_EXTENSIONS ==
    {"nef", "3fr", "ari", "arw", "bay", "crw", "cr2", "cr3", "cap", "dcs", "dcr",
     "dng", "drf", "eip", "erf", "fff", "gpr", "mdc", "mef", "mos", "mrw", "nrw",
     "obm", "orf", "pef", "ptx", "pxn", "r3d", "raw", "rwl", "rw2", "rwz", "sr2",
     "srf", "srw", "x3f", "raf"}

LOSSY_EXTENSIONS ==
    {"jpg", "jpeg", "png", "heic", "avif", "heif", "tiff", "tif", "hif"}

TRASH_EXT ==
    {"xmp", "dat", "bat", "exe", "bin", "fir", "dmg", "msi", "sh", "lut", "mo",
     "lua", "sym", "rbf", "txt", "rtf", "doc", "docx", "pdf", "ctg"}

TRASH_FILES == {"indexervolumeguid"}

TRASH_FOLDERS == {"system volume information"}

\* std::u64::MAX, as the largest integer the model's arithmetic holds: every
\* size of the model is below it.
U64_MAX == 2147483647

\* ------------------------------------------------------------------------
\* traits.rs
\* ------------------------------------------------------------------------

\* The extension taken as it is written, with no lowercasing: the variant the
\* formula of C16 must tell from OptLower.
OptAsWritten(o) == IF IsSome(o) THEN Some(o[1]) ELSE None

\* Option::map(OsStr::to_ascii_lowercase) on an extension or a stem.
OptLower(o) == IF IsSome(o) THEN Some(to_ascii_lowercase(o[1])) ELSE None

\* IsJpeg::is_jpeg: the lowercased extension is jpg or jpeg.
is_jpeg(p) ==
    LET ext == OptLower(extension(p))
    IN  IsSome(ext) /\ ext[1] \in {"jpg", "jpeg"}

\* IsHidden::is_hidden (the non-Windows branch): the file name starts with
\* ".", and a path with no file name counts as hidden.
is_hidden(p) ==
    IF IsSome(file_name(p)) THEN starts_with(file_name(p)[1], ".") ELSE TRUE

\* ------------------------------------------------------------------------
\* Filter.  filter = [extensions, min_size, max_size, ignore_hidden]
\* ------------------------------------------------------------------------

\* Filter::matches of ingest/async.rs.  meta is what path.metadata() gives:
\* Some(size), or None when it fails.  The result is Some(bool), or None for
\* the Err of the metadata read.
matches_async(filter, p, meta) ==
    LET stem == OptLower(file_stem(p))
        ext  == OptLower(extension(p))
    IN  IF filter.ignore_hidden /\ is_hidden(p) THEN Some(FALSE)
        ELSE IF IsSome(stem) /\ (stem[1] \in TRASH_FILES \/ stem[1] \in TRASH_FOLDERS)
        THEN Some(FALSE)
        ELSE IF ~IsSome(meta) THEN None
        ELSE LET size == meta[1] IN
        IF IsSome(ext)
        THEN Some(/\ \/ ext[1] \in filter.extensions
                     \/ filter.extensions = {}
                     \/ "" \in filter.extensions
                  /\ size >= filter.min_size
                  /\ size <= filter.max_size
                  /\ ext[1] \notin TRASH_EXT)
        ELSE Some(\/ filter.extensions = {}
                  \/ /\ "" \in filter.extensions
                     /\ size >= filter.min_size
                     /\ size <= filter.max_size)

\* Filter::matches of ingest/sync.rs (the same text as lib.rs).
matches_sync(filter, p, meta) ==
    LET ext == OptLower(extension(p))
    IN  IF is_hidden(p) = filter.ignore_hidden THEN Some(FALSE)
        ELSE IF ~IsSome(meta) THEN None
        ELSE LET size == meta[1] IN
        IF IsSome(ext)
        THEN Some(/\ ext[1] \in filter.extensions
                  /\ size >= filter.min_size
                  /\ size <= filter.max_size)
        ELSE Some(/\ (filter.extensions = {} \/ "" \in filter.extensions)
                  /\ size >= filter.min_size
                  /\ size <= filter.max_size)

\* Result::ok().unwrap_or(true) and Result::ok()? on the result of matches.
OkOrTrue(r) == IF IsSome(r) THEN r[1] ELSE TRUE

OkAndTrue(r) == IsSome(r) /\ r[1]

\* Filter::images.
FilterImages ==
    [extensions |-> RAW_EXTENSIONS \cup LOSSY_EXTENSIONS,
     min_size |-> 0, max_size |-> U64_MAX, ignore_hidden |-> TRUE]

\* Filter::default.
FilterDefault ==
    [extensions |-> {}, min_size |-> 0, max_size |-> U64_MAX, ignore_hidden |-> TRUE]

\* ------------------------------------------------------------------------
\* Rename.  rename = [name, position, sequence, zeroes]
\* ------------------------------------------------------------------------

RECURSIVE Decimal(_)
Decimal(n) ==
    IF n < 10 THEN CharAt("0123456789", n + 1)
    ELSE Decimal(n \div 10) \o CharAt("0123456789", (n % 10) + 1)

RECURSIVE ZeroPad(_, _)
ZeroPad(s, width) == IF Len(s) >= width THEN s ELSE ZeroPad("0" \o s, width)

\* format!("{:0z$}", n) of an i32: zeroes go between the sign and the digits,
\* and the sign counts in the width.
FormatPadded(n, z) ==
    IF n < 0 THEN "-" \o ZeroPad(Decimal(0 - n), z - 1) ELSE ZeroPad(Decimal(n), z)

\* Rename::default.
RenameDefault == [name |-> None, position |-> "Prefix", sequence |-> 0, zeroes |-> 0]

\* Rename::file_stem: Err (None) when there is no override and the path has
\* no file stem.  The path's stem is computed, and its absence is an error,
\* also when the override is set (unwrap_or evaluates its argument first).
rename_file_stem(rename, p) ==
    IF ~IsSome(file_stem(p)) THEN None
    ELSE LET name == IF IsSome(rename.name) THEN rename.name[1] ELSE file_stem(p)[1]
             num  == FormatPadded(rename.sequence, rename.zeroes)
         IN  IF rename.position = "Suffix"
             THEN Some(name \o "-" \o num)
             ELSE Some(num \o "-" \o name)

\* Rename::next with the sequence advanced whatever file_stem returned: the
\* variant the formula of C11 must tell from rename_next.
rename_next_always(rename, p) ==
    [stem   |-> rename_file_stem(rename, p),
     rename |-> [rename EXCEPT !.sequence = rename.sequence + 1]]

\* Rename::next: [stem, rename]; the sequence advances only on success.
rename_next(rename, p) ==
    LET stem == rename_file_stem(rename, p)
    IN  [stem   |-> stem,
         rename |-> IF IsSome(stem)
                    THEN [rename EXCEPT !.sequence = rename.sequence + 1]
                    ELSE rename]

\* ------------------------------------------------------------------------
\* The source trees.  An entry is [path, kind, size]; kind is "dir", "file" or
\* "symlink" (a dangling one, whose metadata cannot be read), size is what
\* metadata().len() returns for it.
\* ------------------------------------------------------------------------

Dir(p) == [path |-> p, kind |-> "dir", size |-> 1]

File(p, n) == [path |-> p, kind |-> "file", size |-> n]

Link(p) == [path |-> p, kind |-> "symlink", size |-> 0]

\* The entries of a tree at path p, compared by canonical form.
EntryAt(tree, p) == {e \in tree : Absolute(e.path) = Absolute(p)}

IsSrcFile(tree, p) == \E e \in EntryAt(tree, p) : e.kind = "file"

SizeOf(tree, p) == (CHOOSE e \in tree : e.path = p).size

\* Path::metadata: it follows the link, and fails on a dangling one.
metadata(tree, p) ==
    LET e == CHOOSE x \in tree : x.path = p
    IN  IF e.kind = "symlink" THEN None ELSE Some(e.size)

\* Path::canonicalize(p).ok(): the path resolves to something that exists.
Resolves(tree, p) == \E e \in EntryAt(tree, p) : e.kind # "symlink"

KindOf(tree, p) == (CHOOSE e \in tree : e.path = p).kind

Children(tree, p) ==
    {e.path : e \in {x \in tree : Len(x.path) = Len(p) + 1 /\ IsPrefix(p, x.path)}}

\* The paths of a set in the order of their file names (sort_by_file_name).
RECURSIVE SortByFileName(_)
SortByFileName(ps) ==
    IF ps = {} THEN <<>>
    ELSE LET first == CHOOSE p \in ps :
                         \A q \in ps \ {p} : StrLess(p[Len(p)], q[Len(q)])
         IN  <<first>> \o SortByFileName(ps \ {first})

\* WalkDir::new(root).max_depth(maxd).sort_by_file_name(), with
\* filter_entry(keep) when prune is set: pre-order, the root first (depth 0),
\* an entry the predicate rejects is not yielded and not descended into.
\* The predicate is filters.matches(e.path()).ok().unwrap_or(true).
RECURSIVE WalkFrom(_, _, _, _, _, _)
RECURSIVE WalkList(_, _, _, _, _, _)
WalkFrom(tree, p, d, maxd, filter, prune) ==
    IF prune /\ ~OkOrTrue(matches_async(filter, p, metadata(tree, p))) THEN <<>>
    ELSE <<p>> \o
         (IF KindOf(tree, p) = "dir" /\ d < maxd
          THEN WalkList(tree, SortByFileName(Children(tree, p)), d + 1, maxd, filter, prune)
          ELSE <<>>)

WalkList(tree, ps, d, maxd, filter, prune) ==
    IF ps = <<>> THEN <<>>
    ELSE WalkFrom(tree, Head(ps), d, maxd, filter, prune)
         \o WalkList(tree, Tail(ps), d, maxd, filter, prune)

\* A root that does not exist yields an error, which flatten() drops.
WalkDir(tree, root, maxd, filter, prune) ==
    IF \E e \in tree : e.path = root
    THEN WalkFrom(tree, root, 0, maxd, filter, prune)
    ELSE <<>>

RECURSIVE SeqSum(_)
SeqSum(ns) == IF ns = <<>> THEN 0 ELSE Head(ns) + SeqSum(Tail(ns))

\* ------------------------------------------------------------------------
\* State
\* ------------------------------------------------------------------------

VARIABLES
    personality,  \* "async" or "sync": the build feature (ingest/mod.rs)
    world,        \* the environment: source tree, unreadable files, free space
    structure,    \* Ingestor.structure
    target,       \* Ingestor.target
    backup,       \* Ingestor.backup: None or Some(path)
    sources,      \* Ingestor.sources, in the order the HashSet iterates
    filter,       \* Ingestor.filter
    depth,        \* Ingestor.depth
    cancel,       \* Ingestor.cancel, the shared cancellation flag
    m,            \* what a pass mutates: [disk, dirs, jpegs, rename, progress,
                  \*   copy_xmp, copy_jpg], with the log of the filesystem
                  \*   calls, the sightings of the pending set's keys and
                  \*   the count of cancellations observed
    pc,           \* where ingest() stands
    pass,         \* "primary" or "backup"
    todo,         \* the entries the walk has not yielded yet: <<source, path>>
    saved,        \* the locals __copy_xmp and __copy_jpg
    result,       \* what ingest() returned: "none" while it runs
    call,         \* what held when ingest() was called
    probe         \* a direct call of fits() or fits_with(): its inputs and result

vars == <<personality, world, structure, target, backup, sources, filter, depth,
          cancel, m, pc, pass, todo, saved, result, call, probe>>

\* ------------------------------------------------------------------------
\* The filesystem collaborators
\* ------------------------------------------------------------------------

Prefixes(p) == {SubSeq(p, 1, k) : k \in 1..Len(p)}

\* fs::create_dir_all(p): p and its ancestors exist afterwards.
create_dir_all(mm, p) ==
    [mm EXCEPT !.dirs = @ \cup Prefixes(Absolute(p)),
               !.log  = Append(@, [op |-> "mkdir", to |-> p, cancel |-> cancel])]

DiskPaths(mm) == {f.path : f \in mm.disk}

\* Path::exists on the destination side.
Exists(mm, p) == Absolute(p) \in DiskPaths(mm) \/ Absolute(p) \in mm.dirs

\* Whether fs::copy(from, to) succeeds: from is a readable regular file, the
\* directory of to exists and to is no directory.
CopySucceeds(mm, from, to) ==
    /\ IsSrcFile(world.tree, from)
    /\ Absolute(from) \notin world.unreadable
    /\ IsSome(parent(to))
    /\ Absolute(parent(to)[1]) \in mm.dirs
    /\ Absolute(to) \notin mm.dirs

\* fs::copy(from, to): [m, ok].  A successful copy creates or truncates to.
\* The log keeps the call: its paths as passed, whether to existed, the
\* target and the pass of the moment.
fs_copy(mm, from, to, kind) ==
    LET ok == CopySucceeds(mm, from, to)
        ev == [op |-> "copy", kind |-> kind, from |-> from, to |-> to,
               ok |-> ok, existed |-> Exists(mm, to), cancel |-> cancel,
               pass |-> pass, target |-> target]
    IN  [m  |-> [mm EXCEPT
                   !.disk = IF ok
                            THEN {f \in @ : f.path # Absolute(to)}
                                 \cup {[path |-> Absolute(to), from |-> Absolute(from)]}
                            ELSE @,
                   !.log = Append(@, ev)],
         ok |-> ok]

\* The n-th candidate of exists_plus_one: name.ext, name-1.ext, name-2.ext ...
Candidate(p, n) ==
    IF n = 0 \/ ~IsSome(file_name(p)) THEN p
    ELSE LET name == p[Len(p)]
             ext  == NameExtension(name)
             stem == NameStem(name) \o "-" \o Decimal(n)
         IN  SubSeq(p, 1, Len(p) - 1)
             \o <<IF IsSome(ext) THEN stem \o "." \o ext[1] ELSE stem>>

RECURSIVE PlusOneFrom(_, _, _)
PlusOneFrom(mm, p, n) ==
    IF ~Exists(mm, Candidate(p, n)) THEN Candidate(p, n)
    ELSE PlusOneFrom(mm, p, n + 1)

\* exists_plus_one: the first candidate that does not exist.
exists_plus_one(mm, output) == PlusOneFrom(mm, output, 0)

\* accompanying_jpeg with no refusal of a path that is a JPEG itself: the
\* variant the formula of C23 must tell from accompanying_jpeg.
accompanying_jpeg_of_any(p) ==
    LET ext == OptLower(extension(p))
        jpg  == with_extension(p, "jpg")
        jpeg == with_extension(p, "jpeg")
    IN  IF ~IsSome(ext) THEN None
        ELSE IF Resolves(world.tree, jpg) THEN Some(Absolute(jpg))
        ELSE IF Resolves(world.tree, jpeg) THEN Some(Absolute(jpeg))
        ELSE None

\* accompanying_jpeg (lib.rs): Err (None) for a path with no extension and for
\* a JPEG; else the canonical path of the first of stem.jpg, stem.jpeg that
\* exists.
accompanying_jpeg(p) ==
    LET ext == OptLower(extension(p))
        jpg  == with_extension(p, "jpg")
        jpeg == with_extension(p, "jpeg")
    IN  IF ~IsSome(ext) THEN None
        ELSE IF ext[1] \in {"jpg", "jpeg"} THEN None
        ELSE IF Resolves(world.tree, jpg) THEN Some(Absolute(jpg))
        ELSE IF Resolves(world.tree, jpeg) THEN Some(Absolute(jpeg))
        ELSE None

\* ------------------------------------------------------------------------
\* Ingestor: the copy primitives.  Each returns [m, ok]: the mutated state
\* and whether the call returned Ok.
\* ------------------------------------------------------------------------

Ok(mm) == [m |-> mm, ok |-> TRUE]

Err(mm) == [m |-> mm, ok |-> FALSE]

\* The Err of a cancellation check that found the flag set.
Cancelled(mm) == Err([mm EXCEPT !.observed = @ + 1])

\* One look-up of a key in the pending-sidecar set, as the history keeps it.
Sighting(mm, p, by) ==
    [key |-> p, by |-> by, present |-> p \in mm.jpegs, pass |-> pass]

\* The toggle with the key left in the set when it is found there: the
\* variant the formula of C25 must tell from toggle_jpeg.
toggle_jpeg_keeps(mm, p) ==
    [mm EXCEPT !.jpegs = @ \cup {p},
               !.sighted = Append(@, Sighting(mm, p, "ingest_copy"))]

\* The toggle of the pending-sidecar set.
toggle_jpeg(mm, p) ==
    [mm EXCEPT !.jpegs = IF p \in @ THEN @ \ {p} ELSE @ \cup {p},
               !.sighted = Append(@, Sighting(mm, p, "ingest_copy"))]

\* Whether ingest_copy looks for the companion JPEG: is_renamed() in
\* async.rs, !is_retained() in sync.rs.
pairs_jpeg ==
    IF personality = "async" THEN structure.kind = "Rename"
    ELSE structure.kind # "Retain"

\* Ingestor::ingest_copy.
ingest_copy(mm, input, output) ==
    IF personality = "async" /\ cancel THEN Cancelled(mm)
    ELSE
    LET out == exists_plus_one(mm, output)
        m1  == IF mm.copy_xmp
               THEN fs_copy(mm, with_extension(input, "xmp"),
                            with_extension(out, "xmp"), "xmp").m
               ELSE mm
        aj  == accompanying_jpeg(input)
        m2  == IF pairs_jpeg /\ m1.copy_jpg /\ IsSome(aj)
               THEN fs_copy(toggle_jpeg(m1, aj[1]), aj[1],
                            with_extension(out, "jpg"), "jpg").m
               ELSE m1
        m3  == IF personality = "async"
               THEN [m2 EXCEPT !.progress = @ + 1]
               ELSE m2
    IN  fs_copy(m3, input, out, "primary")

\* ingest_file with the path taken relative to the source root itself: the
\* variant the formula of C5 must tell from retain_target.
retain_target_from_root(source, path) ==
    LET rel == strip_prefix(path, source)
    IN  IF IsSome(rel) THEN Some(join(target, rel[1])) ELSE None

\* Ingestor::ingest_file (Structure::Retain): the path is taken relative to
\* the parent of its source root, or to the root when it has no parent.
retain_target(source, path) ==
    LET base == IF IsSome(parent(source)) THEN parent(source)[1] ELSE source
        rel  == strip_prefix(path, base)
    IN  IF IsSome(rel) THEN Some(join(target, rel[1])) ELSE None

ingest_file(mm, source, path) ==
    LET tgt == retain_target(source, path)
    IN  IF ~IsSome(tgt) THEN Err(mm)
        ELSE IF personality = "async" /\ cancel THEN Cancelled(mm)
        ELSE ingest_copy(create_dir_all(mm, parent(tgt[1])[1]), path, tgt[1])

\* Path::canonicalize of the target: Err (None) when it does not exist.
canonicalize_target(mm) ==
    IF Absolute(target) \in mm.dirs THEN Some(Absolute(target)) ELSE None

\* Ingestor::ingest_file_renamed: the sequence advances when the stem is
\* computed, before the copy is tried.
ingest_file_renamed(mm, path) ==
    LET ext   == extension(path)
        canon == canonicalize_target(mm)
        nx    == rename_next(mm.rename, path)
    IN  IF ~IsSome(ext) \/ ~IsSome(canon) \/ ~IsSome(nx.stem) THEN Err(mm)
        ELSE ingest_copy([mm EXCEPT !.rename = nx.rename], path,
                         canon[1] \o <<nx.stem[1] \o "." \o ext[1]>>)

\* Ingestor::ingest_file_preserve.
ingest_file_preserve(mm, path) ==
    LET canon == canonicalize_target(mm)
    IN  IF ~IsSome(canon) \/ ~IsSome(file_name(path)) THEN Err(mm)
        ELSE ingest_copy(mm, path, canon[1] \o <<file_name(path)[1]>>)

\* The Structure::Rename arm of map_entry: a JPEG found in the pending set is
\* removed from it and skipped, any other JPEG is added to it and copied.
map_renamed(mm, path) ==
    IF is_jpeg(path) /\ path \in mm.jpegs
    THEN [mm EXCEPT !.jpegs = @ \ {path},
                    !.sighted = Append(@, Sighting(mm, path, "map_entry"))]
    ELSE ingest_file_renamed(
             IF is_jpeg(path)
             THEN [mm EXCEPT !.jpegs = @ \cup {path},
                             !.sighted = Append(@, Sighting(mm, path, "map_entry"))]
             ELSE mm,
             path).m

\* Ingestor::map_entry (async.rs): the error of every arm is dropped.
map_entry(mm, source, path) ==
    CASE structure.kind = "Retain"   -> ingest_file(mm, source, path).m
      [] structure.kind = "Rename"   -> map_renamed(mm, path)
      [] structure.kind = "Preserve" -> ingest_file_preserve(mm, path).m

\* The closure of try_for_each in sync.rs: [m, abort].  The Err of matches
\* leaves the closure and ends ingest(); an entry the filter rejects is passed
\* over; Structure::Preserve is todo!().
sync_entry(mm, source, path) ==
    LET r == matches_sync(filter, path, metadata(world.tree, path))
    IN  IF ~IsSome(r) THEN [m |-> mm, abort |-> "IOError"]
        ELSE IF ~r[1] THEN [m |-> mm, abort |-> "none"]
        ELSE CASE structure.kind = "Retain" ->
                     [m |-> ingest_file(mm, source, path).m, abort |-> "none"]
               [] structure.kind = "Rename" ->
                     [m |-> map_renamed(mm, path), abort |-> "none"]
               [] structure.kind = "Preserve" ->
                     [m |-> mm, abort |-> "Panic"]

\* The loop over the drained pending set: the flags are forced off, and the
\* path is copied under Structure::Retain alone.
RECURSIVE drain_loop(_, _)
drain_loop(mm, left) ==
    IF left = {} THEN mm
    ELSE LET jpeg == CHOOSE p \in left : TRUE
             off  == [mm EXCEPT !.copy_xmp = FALSE, !.copy_jpg = FALSE]
         IN  drain_loop(IF structure.kind = "Retain"
                        THEN ingest_file_renamed(off, jpeg).m
                        ELSE off,
                        left \ {jpeg})

drain(mm) == drain_loop([mm EXCEPT !.jpegs = {}], mm.jpegs)

\* ------------------------------------------------------------------------
\* Ingestor: the space preflight
\* ------------------------------------------------------------------------

\* Ingestor::files of one source root.  async.rs keeps every entry the filter
\* matches, with no pruning; sync.rs walks with no depth limit and keeps the
\* regular files the filter matches.
files_of(pers, tree, source, dep, flt) ==
    IF pers = "async"
    THEN SelectSeq(WalkDir(tree, source, dep, flt, FALSE),
                   LAMBDA p : OkAndTrue(matches_async(flt, p, metadata(tree, p))))
    ELSE SelectSeq(WalkDir(tree, source, U64_MAX, flt, FALSE),
                   LAMBDA p : /\ KindOf(tree, p) = "file"
                              /\ OkAndTrue(matches_sync(flt, p, metadata(tree, p))))

RECURSIVE files_from(_, _, _, _, _)
files_from(pers, tree, srcs, dep, flt) ==
    IF srcs = <<>> THEN <<>>
    ELSE files_of(pers, tree, Head(srcs), dep, flt)
         \o files_from(pers, tree, Tail(srcs), dep, flt)

RECURSIVE SizesOf(_, _)
SizesOf(tree, ps) ==
    IF ps = <<>> THEN <<>> ELSE <<SizeOf(tree, Head(ps))>> \o SizesOf(tree, Tail(ps))

\* Ingestor::total_size, on what it reads.
total_of(pers, tree, srcs, dep, flt) ==
    SeqSum(SizesOf(tree, files_from(pers, tree, srcs, dep, flt)))

\* Ingestor::files.
files == files_from(personality, world.tree, sources, depth, filter)

\* Ingestor::total_size.
total_size == total_of(personality, world.tree, sources, depth, filter)

\* fs2::free_space of the volume a destination path lies on.
free_space_of(p) == world.free[p]

\* fits_with with comparisons that are not strict: the variant the formula of
\* C9 must tell from fits_with.
fits_with_or_equal(total, free, bk, size) ==
    IF IsSome(bk)
    THEN IF bk[1].same_disk
         THEN free + size >= total * 2
         ELSE free + size >= total /\ bk[1].free + size >= total
    ELSE free + size >= total

\* Ingestor::fits_with on the values it reads: bk is None, or
\* Some([free, same_disk]) for a configured backup.
fits_with(total, free, bk, size) ==
    IF IsSome(bk)
    THEN IF bk[1].same_disk
         THEN free + size > total * 2
         ELSE free + size > total /\ bk[1].free + size > total
    ELSE free + size > total

\* The backup record fits_with and needs read: same_disk, and the free space
\* of the backup volume.
backup_needs ==
    IF IsSome(backup)
    THEN Some([free |-> free_space_of(backup[1]), same_disk |-> world.same_disk])
    ELSE None

\* Ingestor::fits.
fits == fits_with(total_size, free_space_of(target), backup_needs, 0)

\* The directories fits() creates on its way: free_space() creates the
\* target, free_space_backup() the backup when it is on another volume.
fits_dirs(mm) ==
    LET m1 == create_dir_all(mm, target)
    IN  IF IsSome(backup) /\ ~world.same_disk
        THEN create_dir_all(m1, backup[1])
        ELSE m1

\* The preflight of sync.rs and of backup() in async.rs: free_space() <
\* total_size() fails.
enough_space(path) == ~(free_space_of(path) < total_size)

\* ------------------------------------------------------------------------
\* Ingestor: the walk
\* ------------------------------------------------------------------------

RECURSIVE Tagged(_, _)
Tagged(source, ps) ==
    IF ps = <<>> THEN <<>> ELSE <<<<source, Head(ps)>>>> \o Tagged(source, Tail(ps))

\* The entries the loop over one source root yields.  async.rs: depth-bounded,
\* sorted by name, pruned by the filter; sync.rs: everything, and the closure
\* applies the filter.
walk_of(source) ==
    IF personality = "async"
    THEN WalkDir(world.tree, source, depth, filter, TRUE)
    ELSE WalkDir(world.tree, source, U64_MAX, filter, FALSE)

RECURSIVE walk_from(_)
walk_from(srcs) ==
    IF srcs = <<>> THEN <<>>
    ELSE Tagged(Head(srcs), walk_of(Head(srcs))) \o walk_from(Tail(srcs))

\* The Rename a pass numbers from: a copy of the structure's, or the default.
start_rename ==
    IF structure.kind = "Rename" THEN structure.rename ELSE RenameDefault

\* ------------------------------------------------------------------------
\* The configurations and environments explored
\* ------------------------------------------------------------------------

\* The traversal depth that stands for "unlimited".
MaxDepth == 8

RelRoot == <<"src">>

AbsRoot == <<"/", "mnt", "card">>

Target0 == <<"out">>

Backup0 == <<"/", "mnt", "bak">>

\* A RAW file with its companion JPEG, and a lone PNG.
TreePair(r) ==
    {Dir(r), File(r \o <<"a.cr2">>, 2), File(r \o <<"a.jpg">>, 1),
     File(r \o <<"b.png">>, 1)}

\* A RAW file with its companion JPEG and its XMP sidecar.
TreeSidecar(r) ==
    {Dir(r), File(r \o <<"a.cr2">>, 2), File(r \o <<"a.jpg">>, 1),
     File(r \o <<"a.xmp">>, 1)}

\* One RAW file two directories down.
TreeNested(r) ==
    {Dir(r), Dir(r \o <<"x">>), Dir(r \o <<"x", "y">>),
     File(r \o <<"x", "y", "f.cr2">>, 2)}

\* A dangling symbolic link before a regular file.
TreeLink(r) ==
    {Dir(r), Link(r \o <<"a.cr2">>), File(r \o <<"b.png">>, 1)}

\* A JPEG with no RAW file beside it.
TreeOrphan(r) == {Dir(r), File(r \o <<"c.jpg">>, 1)}

\* A JPEG whose RAW file sorts after it.
TreeRawLast(r) == {Dir(r), File(r \o <<"a.jpg">>, 1), File(r \o <<"a.nef">>, 2)}

\* A second source root.
OtherRoot == <<"/", "mnt", "disk">>

\* Two source roots with one RAW file each.
TreeTwoRoots ==
    {Dir(AbsRoot), File(AbsRoot \o <<"a.cr2">>, 2),
     Dir(OtherRoot), File(OtherRoot \o <<"b.cr2">>, 2)}

\* The trees and their source roots.  sources is a HashSet, whose iteration
\* order is not specified: two roots come in either order.
Scenarios ==
    {[tree |-> TreePair(RelRoot),    sources |-> <<RelRoot>>],
     [tree |-> TreeOrphan(AbsRoot),  sources |-> <<AbsRoot>>],
     [tree |-> TreeRawLast(AbsRoot), sources |-> <<AbsRoot>>],
     [tree |-> TreeLink(AbsRoot),    sources |-> <<AbsRoot>>],
     [tree |-> TreePair(AbsRoot),    sources |-> <<AbsRoot>>],
     [tree |-> TreeSidecar(AbsRoot), sources |-> <<AbsRoot>>],
     [tree |-> TreeNested(RelRoot),  sources |-> <<RelRoot>>],
     [tree |-> TreeTwoRoots,         sources |-> <<AbsRoot, OtherRoot>>],
     [tree |-> TreeTwoRoots,         sources |-> <<OtherRoot, AbsRoot>>]}

RenamePrefix3 == [name |-> None, position |-> "Prefix", sequence |-> 0, zeroes |-> 3]

Structures ==
    {[kind |-> "Retain"], [kind |-> "Preserve"],
     [kind |-> "Rename", rename |-> RenamePrefix3]}

Filters == {FilterDefault, FilterImages}

\* The sets of source files whose copy fails (unreadable, locked).
Unreadables(tree) ==
    {{}} \cup {{Absolute(e.path)} : e \in {x \in tree : x.kind = "file" /\ x.path[Len(x.path)] = "a.cr2"}}

\* The files the target holds before ingest() is called.
PreExisting ==
    {{},
     {Absolute(Target0) \o <<"a.cr2">>,
      Absolute(Target0) \o <<"000-a.jpg">>,
      Absolute(Target0) \o <<"card", "a.cr2">>}}

\* The backup configurations: none, on the target's volume, on another one.
BackupModes == {"none", "same", "other"}

\* The free space of the two volumes, around what the preflight compares
\* with, for a total of t bytes.
FreeChoices(mode, t) ==
    CASE mode = "none"  -> {<<f, f>> : f \in {t, t + 1}}
      [] mode = "same"  -> {<<f, f>> : f \in {t + 1, 2 * t, 2 * t + 1}}
      [] mode = "other" -> {t, t + 1} \X {f \in {t - 1, t, t + 1} : f >= 0}

NoProbe == [op |-> "none"]

NoCall ==
    [made |-> FALSE, cancel |-> FALSE, fits |-> FALSE, target |-> <<>>,
     backup |-> None, copy_xmp |-> FALSE, copy_jpg |-> FALSE]

Init ==
    \E pers \in {"async", "sync"}, sc \in Scenarios, st \in Structures,
       flt \in Filters, cx \in BOOLEAN, cj \in BOOLEAN, mode \in BackupModes,
       pre \in PreExisting :
    \E unread \in Unreadables(sc.tree),
       fr \in FreeChoices(mode, total_of(pers, sc.tree, sc.sources, MaxDepth, flt)) :
        /\ personality = pers
        /\ world = [tree |-> sc.tree, unreadable |-> unread,
                    free |-> (Target0 :> fr[1]) @@ (Backup0 :> fr[2]),
                    same_disk |-> (mode = "same")]
        /\ structure = st
        /\ target = Target0
        /\ backup = IF mode = "none" THEN None ELSE Some(Backup0)
        /\ sources = sc.sources
        /\ filter = flt
        /\ depth = MaxDepth
        /\ cancel = FALSE
        /\ m = [disk     |-> {[path |-> f, from |-> <<"pre-existing">>] : f \in pre},
                dirs     |-> {<<"/">>, Cwd}
                             \cup UNION {Prefixes(SubSeq(f, 1, Len(f) - 1)) : f \in pre},
                jpegs    |-> {},
                rename   |-> RenameDefault,
                progress |-> 0,
                log      |-> <<>>,
                sighted  |-> <<>>,
                observed |-> 0,
                copy_xmp |-> cx,
                copy_jpg |-> cj]
        /\ pc = "idle"
        /\ pass = "primary"
        /\ todo = <<>>
        /\ saved = [copy_xmp |-> cx, copy_jpg |-> cj]
        /\ result = "none"
        /\ call = NoCall
        /\ probe = NoProbe

\* ------------------------------------------------------------------------
\* ingest(), step by step
\* ------------------------------------------------------------------------

Fixed == <<personality, world, structure, sources, filter, depth, probe>>

Return(r) == result' = r /\ pc' = "done"

\* The start of a pass that goes on with the Rename the Ingestor was left
\* with: the variant the formula of C30 must tell from StartPass.
StartPassKeepsRename(mm, p) ==
    /\ m' = mm
    /\ todo' = walk_from(sources)
    /\ pass' = p
    /\ pc' = "walk"
    /\ result' = result

\* The start of a pass with the progress counter set back to zero: the
\* variant the formula of C21 must tell from StartPass.
StartPassResetsProgress(mm, p) ==
    /\ m' = [mm EXCEPT !.rename = start_rename, !.progress = 0]
    /\ todo' = walk_from(sources)
    /\ pass' = p
    /\ pc' = "walk"
    /\ result' = result

\* The start of a pass once its preflight has passed: a fresh Rename, and the
\* walk over the source roots.
StartPass(mm, p) ==
    /\ m' = [mm EXCEPT !.rename = start_rename]
    /\ todo' = walk_from(sources)
    /\ pass' = p
    /\ pc' = "walk"
    /\ result' = result

\* ingest() is called.  async.rs: fits(), else InsufficientSpace.  sync.rs:
\* the target is created and free_space() < total_size() fails.
Ingest ==
    /\ pc = "idle"
    /\ call' = [made |-> TRUE, cancel |-> cancel, fits |-> fits,
                target |-> target, backup |-> backup,
                copy_xmp |-> m.copy_xmp, copy_jpg |-> m.copy_jpg]
    /\ IF personality = "async"
       THEN IF fits
            THEN StartPass(fits_dirs(m), "primary")
            ELSE /\ Return("InsufficientSpace")
                 /\ m' = fits_dirs(m)
                 /\ UNCHANGED <<todo, pass>>
       ELSE LET m1 == create_dir_all(create_dir_all(m, target), target)
            IN  IF enough_space(target)
                THEN StartPass(m1, "primary")
                ELSE /\ Return("NotEnoughSpace")
                     /\ m' = m1
                     /\ UNCHANGED <<todo, pass>>
    /\ UNCHANGED <<Fixed, target, backup, cancel, saved>>

\* One entry of the walk goes through map_entry (async.rs) or through the
\* closure of try_for_each (sync.rs).
Step ==
    /\ pc = "walk"
    /\ todo # <<>>
    /\ LET source == Head(todo)[1]
           path   == Head(todo)[2]
       IN  IF personality = "async"
           THEN /\ m' = map_entry(m, source, path)
                /\ todo' = Tail(todo)
                /\ UNCHANGED <<pc, result>>
           ELSE LET r == sync_entry(m, source, path)
                IN  /\ m' = r.m
                    /\ todo' = Tail(todo)
                    /\ IF r.abort # "none" THEN Return(r.abort)
                       ELSE UNCHANGED <<pc, result>>
    /\ UNCHANGED <<Fixed, target, backup, cancel, pass, saved, call>>

\* The walk is over: the pending sidecars are drained.  backup() of async.rs
\* returns Ok right after; ingest() goes on to its cancellation check;
\* sync.rs goes on to the backup test.
Drain ==
    /\ pc = "walk"
    /\ todo = <<>>
    /\ saved' = [copy_xmp |-> m.copy_xmp, copy_jpg |-> m.copy_jpg]
    /\ m' = drain(m)
    /\ IF personality = "sync" THEN pc' = "backup" /\ result' = result
       ELSE IF pass = "primary" THEN pc' = "check" /\ result' = result
       ELSE Return("Ok")
    /\ UNCHANGED <<Fixed, target, backup, cancel, pass, todo, call>>

\* ingest() with no test of the flag after the drain: the variant the formula
\* of C6 must tell from Check.
CheckWithoutCancel ==
    /\ pc = "check"
    /\ m' = [m EXCEPT !.copy_xmp = saved.copy_xmp, !.copy_jpg = saved.copy_jpg]
    /\ pc' = "backup"
    /\ result' = result
    /\ UNCHANGED <<Fixed, target, backup, cancel, pass, todo, saved, call>>

\* async.rs: after the drain of the primary pass the flag is read; if it is
\* not set the flags are restored.
Check ==
    /\ pc = "check"
    /\ IF cancel
       THEN Return("Cancelled") /\ m' = m
       ELSE /\ m' = [m EXCEPT !.copy_xmp = saved.copy_xmp,
                              !.copy_jpg = saved.copy_jpg]
            /\ pc' = "backup"
            /\ result' = result
    /\ UNCHANGED <<Fixed, target, backup, cancel, pass, todo, saved, call>>

\* The backup transition with the backup field left as it was: the variant
\* the formula of C13 must tell from Backup.
BackupKeepsField ==
    /\ pc = "backup"
    /\ IF ~IsSome(backup)
       THEN Return("Ok") /\ UNCHANGED <<m, target, backup, todo, pass>>
       ELSE /\ target' = backup[1]
            /\ backup' = backup
            /\ LET m0 == IF personality = "sync"
                         THEN [m EXCEPT !.copy_xmp = saved.copy_xmp,
                                        !.copy_jpg = saved.copy_jpg]
                         ELSE m
                   m1 == create_dir_all(create_dir_all(m0, backup[1]), backup[1])
               IN  IF enough_space(backup[1])
                   THEN StartPass(m1, "backup")
                   ELSE /\ Return(IF personality = "async"
                                  THEN "InsufficientSpace" ELSE "NotEnoughSpace")
                        /\ m' = m1
                        /\ UNCHANGED <<todo, pass>>
    /\ UNCHANGED <<Fixed, cancel, saved, call>>

\* The backup transition.  async.rs (backup()): with a backup set, the target
\* becomes the backup, the backup is cleared, the target is created and
\* free_space() < total_size() fails with InsufficientSpace.  sync.rs: the
\* flags are restored, the target becomes the backup and ingest() calls itself.
Backup ==
    /\ pc = "backup"
    /\ IF ~IsSome(backup)
       THEN Return("Ok") /\ UNCHANGED <<m, target, backup, todo, pass>>
       ELSE /\ target' = backup[1]
            /\ backup' = None
            /\ LET m0 == IF personality = "sync"
                         THEN [m EXCEPT !.copy_xmp = saved.copy_xmp,
                                        !.copy_jpg = saved.copy_jpg]
                         ELSE m
                   m1 == create_dir_all(create_dir_all(m0, backup[1]), backup[1])
               IN  IF enough_space(backup[1])
                   THEN StartPass(m1, "backup")
                   ELSE /\ Return(IF personality = "async"
                                  THEN "InsufficientSpace" ELSE "NotEnoughSpace")
                        /\ m' = m1
                        /\ UNCHANGED <<todo, pass>>
    /\ UNCHANGED <<Fixed, cancel, saved, call>>

\* Another task sets the cancellation flag (async.rs alone has one).
SetCancel ==
    /\ personality = "async"
    /\ ~cancel
    /\ pc # "done"
    /\ cancel' = TRUE
    /\ UNCHANGED <<Fixed, target, backup, m, pc, pass, todo, saved, result, call>>

Next == Ingest \/ Step \/ Drain \/ Check \/ Backup \/ SetCancel

Spec == Init /\ [][Next]_vars

\* ------------------------------------------------------------------------
\* fits() and fits_with() called on their own
\* ------------------------------------------------------------------------

MaxTotal == 3

MaxFree == 7

MaxExtra == 2

\* What the two functions read: total_size(), free_space(), the backup with
\* same_disk and free_space_backup(), and the argument of fits_with.
FitsInputs ==
    [total : 0..MaxTotal, free : 0..MaxFree, size : 0..MaxExtra,
     bk : {None} \cup {Some([free |-> f, same_disk |-> d]) :
                            f \in 0..MaxFree, d \in BOOLEAN}]

InitFits ==
    /\ personality = "async"
    /\ world = [tree |-> {}, unreadable |-> {},
                free |-> (Target0 :> 0) @@ (Backup0 :> 0), same_disk |-> FALSE]
    /\ structure = [kind |-> "Retain"]
    /\ target = Target0
    /\ backup = None
    /\ sources = <<>>
    /\ filter = FilterDefault
    /\ depth = MaxDepth
    /\ cancel = FALSE
    /\ m = [disk |-> {}, dirs |-> {<<"/">>, Cwd}, jpegs |-> {},
            rename |-> RenameDefault, progress |-> 0, log |-> <<>>,
            sighted |-> <<>>, observed |-> 0, copy_xmp |-> FALSE,
            copy_jpg |-> FALSE]
    /\ pc = "idle"
    /\ pass = "primary"
    /\ todo = <<>>
    /\ saved = [copy_xmp |-> FALSE, copy_jpg |-> FALSE]
    /\ result = "none"
    /\ call = NoCall
    /\ \E i \in FitsInputs : probe = [op |-> "ready", in |-> i]

Rest == <<personality, world, structure, target, backup, sources, filter, depth,
          cancel, m, pc, pass, todo, saved, result, call>>

\* fits() is called.
CallFits ==
    /\ probe.op = "ready"
    /\ probe' = [op |-> "fits", in |-> probe.in,
                 out |-> fits_with(probe.in.total, probe.in.free, probe.in.bk, 0)]
    /\ UNCHANGED Rest

\* fits_with(size) is called.
CallFitsWith ==
    /\ probe.op = "ready"
    /\ probe' = [op |-> "fits_with", in |-> probe.in,
                 out |-> fits_with(probe.in.total, probe.in.free, probe.in.bk,
                                   probe.in.size)]
    /\ UNCHANGED Rest

NextFits == CallFits \/ CallFitsWith

SpecFits == InitFits /\ [][NextFits]_vars

\* ------------------------------------------------------------------------
\* What the properties read
\* ------------------------------------------------------------------------

\* The filesystem calls of the log.
Events == {m.log[i] : i \in DOMAIN m.log}

CopyEvents == {e \in Events : e.op = "copy"}

\* The files ingest() wrote below a destination directory.
FilesIn(dir) == {f \in m.disk : IsPrefix(Absolute(dir), f.path)}

\* The file names directly in a destination directory.
NamesIn(dir) ==
    {f.path[Len(f.path)] : f \in {g \in FilesIn(dir) : Len(g.path) = Len(Absolute(dir)) + 1}}

\* Nothing stood in the destinations before the call, and every source file
\* can be read.
CleanRun ==
    /\ world.unreadable = {}
    /\ \A f \in m.disk : f.from # <<"pre-existing">>

\* The walk and the drain of the primary pass are over and nothing failed.
PrimaryPassOver ==
    /\ pass = "primary"
    /\ pc \in {"check", "backup", "done"}
    /\ result \in {"none", "Ok"}

\* The source root of a one-root configuration: the first of several.
Root == sources[1]

\* ------------------------------------------------------------------------
\* C1
\* ------------------------------------------------------------------------

\* C1: whenever fits() is false when ingest() is called, ingest() has failed
\* with InsufficientSpace and no copy to the target or the backup has been
\* attempted.
C1_PreflightRefuses ==
    (call.made /\ ~call.fits) =>
        /\ pc = "done"
        /\ result = "InsufficientSpace"
        /\ CopyEvents = {}

\* sync.rs walked and copied with the free space equal to the total size.
C1_Witness ==
    /\ personality = "sync"
    /\ filter = FilterImages
    /\ world.tree = TreePair(AbsRoot)
    /\ ~IsSome(call.backup)
    /\ total_size > 0
    /\ free_space_of(Target0) = total_size
    /\ call.made
    /\ ~call.fits
    /\ \E e \in CopyEvents : e.ok

\* C1 in the async personality alone.
C1_PreflightRefusesAsync == personality = "async" => C1_PreflightRefuses

\* ------------------------------------------------------------------------
\* C2
\* ------------------------------------------------------------------------

\* C2: no copy of ingest_copy, be it the primary file, the .xmp sidecar or the
\* companion JPEG, lands on a path that existed before the copy.
C2_NoOverwrite == \A e \in CopyEvents : e.ok => ~e.existed

\* The target held 000-a.jpg before the call, and the companion JPEG of
\* a.cr2 was written over it.
C2_Witness ==
    /\ structure.kind = "Rename"
    /\ \E e \in CopyEvents :
          /\ e.ok
          /\ e.existed
          /\ e.kind = "jpg"
          /\ Absolute(e.to) = Absolute(Target0 \o <<"000-a.jpg">>)
    /\ [path |-> Absolute(Target0 \o <<"000-a.jpg">>),
        from |-> Absolute(Root \o <<"a.jpg">>)] \in m.disk

\* In a run that found the destinations empty, an .xmp sidecar was written
\* over the one the same run had written.
C2_SidecarTwice ==
    ~(CleanRun /\ \E e \in CopyEvents : e.ok /\ e.existed /\ e.kind = "xmp")

\* C2 for the primary copy alone, which goes through exists_plus_one.
C2_NoOverwritePrimary ==
    \A e \in CopyEvents : (e.ok /\ e.kind = "primary") => ~e.existed

\* ------------------------------------------------------------------------
\* C3
\* ------------------------------------------------------------------------

\* The files of the target that are copies of a source file.
ArtifactsOf(src) == {f \in FilesIn(Target0) : f.from = Absolute(src)}

\* C3: with Structure::Rename and copy_jpg set, a source holding a.cr2 and
\* a.jpg leaves, after one pass in which a.cr2 was ingested, exactly one
\* renamed copy of a.jpg in the target.
C3_OneJpegPerPair ==
    (/\ structure.kind = "Rename"
     /\ call.copy_jpg
     /\ CleanRun
     /\ ~cancel
     /\ PrimaryPassOver
     /\ IsSrcFile(world.tree, Root \o <<"a.jpg">>)
     /\ ArtifactsOf(Root \o <<"a.cr2">>) # {})
    => Cardinality(ArtifactsOf(Root \o <<"a.jpg">>)) = 1

\* With a relative source root a.jpg was written twice under two names.
C3_Witness ==
    /\ personality = "async"
    /\ structure.kind = "Rename"
    /\ call.copy_jpg
    /\ CleanRun
    /\ ~cancel
    /\ PrimaryPassOver
    /\ Root = RelRoot
    /\ {f.path[Len(f.path)] : f \in ArtifactsOf(Root \o <<"a.jpg">>)}
           = {"000-a.jpg", "001-a.jpg"}

\* C3 for a source root given in its canonical form.
C3_OneJpegPerPairCanonical == Absolute(Root) = Root => C3_OneJpegPerPair

\* ------------------------------------------------------------------------
\* C4
\* ------------------------------------------------------------------------

\* C4: Rename with no name, Prefix, zeroes 3 and sequence 0, the images
\* filter and one source root holding exactly a.cr2, a.jpg and b.png: after
\* the pass the target holds exactly 000-a.cr2, 000-a.jpg and 001-b.png.
C4_RenamedTriple ==
    (/\ structure = [kind |-> "Rename", rename |-> RenamePrefix3]
     /\ filter = FilterImages
     /\ world.tree = TreePair(Root)
     /\ call.copy_jpg
     /\ CleanRun
     /\ ~cancel
     /\ PrimaryPassOver)
    => NamesIn(Target0) = {"000-a.cr2", "000-a.jpg", "001-b.png"}

\* async.rs returned Ok with nothing in the target: the images filter
\* rejected the source root, and the walk pruned it.
C4_Witness ==
    /\ personality = "async"
    /\ structure = [kind |-> "Rename", rename |-> RenamePrefix3]
    /\ filter = FilterImages
    /\ world.tree = TreePair(AbsRoot)
    /\ call.copy_jpg
    /\ CleanRun
    /\ ~cancel
    /\ pc = "done"
    /\ result = "Ok"
    /\ m.disk = {}

\* C4 with the default filter and a canonical source root.
C4_RenamedTripleDefault ==
    (/\ structure = [kind |-> "Rename", rename |-> RenamePrefix3]
     /\ filter = FilterDefault
     /\ personality = "async"
     /\ Absolute(Root) = Root
     /\ world.tree = TreePair(Root)
     /\ call.copy_jpg
     /\ CleanRun
     /\ ~cancel
     /\ PrimaryPassOver)
    => NamesIn(Target0) = {"000-a.cr2", "000-a.jpg", "001-b.png"}

\* ------------------------------------------------------------------------
\* C5
\* ------------------------------------------------------------------------

\* The source roots that lie above a path, and the one the path was found
\* under.
RootsAbove(p) == {sources[i] : i \in DOMAIN sources} \cap Prefixes(p)

RootOf(p) == CHOOSE s \in RootsAbove(p) : TRUE

\* The path of a source file relative to its source root.
BelowRoot(p) == IF RootsAbove(p) = {} THEN None ELSE strip_prefix(p, RootOf(p))

\* C5 as stated: under Retain the file src/x/y/f.cr2 of the root src ends at
\* out/x/y/f.cr2, the root's own name being no part of the result.
C5_RootNameDropped ==
    (/\ structure.kind = "Retain"
     /\ world.tree = TreeNested(Root)
     /\ CleanRun
     /\ ~cancel
     /\ PrimaryPassOver)
    => \E f \in m.disk :
          /\ f.path = Absolute(Target0 \o <<"x", "y", "f.cr2">>)
          /\ f.from = Absolute(Root \o <<"x", "y", "f.cr2">>)

\* Where C5 expects a copy: the target of the pass, then the name of the
\* source root, then the file's path below the root.
WithRootName(e) ==
    e.target \o <<RootOf(e.from)[Len(RootOf(e.from))]>> \o BelowRoot(e.from)[1]

\* C5: under Retain every file copied lands in the directory that the target
\* of the pass, the name of the source root and the file's path below the
\* root give, under its own name when nothing stood in the destinations
\* before the call, and the directories above it exist.
C5_RootNameKept ==
    structure.kind = "Retain" =>
        \A e \in CopyEvents :
            (e.ok /\ e.kind = "primary") =>
                /\ IsSome(BelowRoot(e.from))
                /\ parent(e.to) = parent(WithRootName(e))
                /\ (\A f \in m.disk : f.from # <<"pre-existing">>)
                        => e.to = WithRootName(e)
                /\ Prefixes(Absolute(parent(e.to)[1])) \subseteq m.dirs

\* The file src/x/y/f.cr2 was copied to out/src/x/y/f.cr2.
C5_Witness ==
    /\ structure.kind = "Retain"
    /\ world.tree = TreeNested(RelRoot)
    /\ [path |-> Absolute(Target0 \o <<"src", "x", "y", "f.cr2">>),
        from |-> Absolute(RelRoot \o <<"x", "y", "f.cr2">>)] \in m.disk
    /\ Absolute(Target0 \o <<"src", "x", "y">>) \in m.dirs

\* ------------------------------------------------------------------------
\* C6
\* ------------------------------------------------------------------------

\* C6 as stated: with the flag set when ingest() is called, ingest() fails
\* with Cancelled, no entry of the walk is handled and no file is copied.
C6_CancelledAtOnce ==
    (call.cancel /\ pc = "done") =>
        /\ result = "Cancelled"
        /\ m.observed = 0
        /\ CopyEvents = {}

\* C6: with the flag set when ingest() is called no file is copied and no
\* directory but the target and the backup is created; ingest() fails with
\* InsufficientSpace when fits() is false, and else with Cancelled, once the
\* walk has handed every entry to map_entry.
C6_CancelledAfterPreflight ==
    call.cancel =>
        /\ CopyEvents = {}
        /\ \A e \in Events : e.op = "mkdir" => e.to \in {Target0, Backup0}
        /\ pc = "done" =>
              result = IF call.fits THEN "Cancelled" ELSE "InsufficientSpace"
        /\ result = "Cancelled" => todo = <<>>

\* ingest() was called with the flag set, refused entries of the walk and
\* returned Cancelled.
C6_Witness ==
    /\ call.cancel
    /\ pc = "done"
    /\ result = "Cancelled"
    /\ m.observed > 0

\* ------------------------------------------------------------------------
\* C7
\* ------------------------------------------------------------------------

\* C7: once the flag is set while ingest() runs, no directory is created and
\* no copy is started, and when an operation has met the flag ingest() returns
\* Cancelled; the backup pass is no exception.
C7_CancelStopsIngest ==
    (call.made /\ ~call.cancel) =>
        /\ \A e \in Events : ~e.cancel
        /\ (pc = "done" /\ m.observed > 0) => result = "Cancelled"

\* The flag was set during the backup pass, operations of the pass met it,
\* and ingest() returned Ok.
C7_Witness ==
    /\ call.made
    /\ ~call.cancel
    /\ cancel
    /\ pass = "backup"
    /\ m.observed > 0
    /\ pc = "done"
    /\ result = "Ok"

\* The second half of C7 alone.
C7_CancelledIsReturned ==
    (call.made /\ ~call.cancel /\ pc = "done" /\ m.observed > 0)
    => result = "Cancelled"

\* The second half of C7 in the primary pass.
C7_CancelledIsReturnedPrimary ==
    (call.made /\ ~call.cancel /\ pc = "done" /\ m.observed > 0 /\ pass = "primary")
    => result = "Cancelled"

\* ------------------------------------------------------------------------
\* C8
\* ------------------------------------------------------------------------

\* C8: with no cancellation and a preflight that passed, the walk handles
\* every entry whatever fails on the way, and ingest() returns Ok.
C8_BestEffort ==
    (pc = "done" /\ ~cancel /\ result \notin {"InsufficientSpace", "NotEnoughSpace"})
    => (result = "Ok" /\ todo = <<>>)

\* sync.rs: the metadata of one entry could not be read, and ingest() ended
\* with that error before the entries after it.
C8_Witness ==
    /\ personality = "sync"
    /\ ~cancel
    /\ pc = "done"
    /\ result = "IOError"
    /\ todo # <<>>

\* C8 in the async personality alone.
C8_BestEffortAsync == personality = "async" => C8_BestEffort

\* ------------------------------------------------------------------------
\* C9 and C10, on SpecFits
\* ------------------------------------------------------------------------

\* C9: fits() is true exactly when free > total with no backup, when
\* free > total * 2 with the backup on the target's disk, and when both
\* free > total and free_backup > total with the backup on another disk.
C9_FitsIsStrict ==
    probe.op = "fits" =>
        probe.out = IF IsSome(probe.in.bk)
                    THEN IF probe.in.bk[1].same_disk
                         THEN probe.in.free > probe.in.total * 2
                         ELSE /\ probe.in.free > probe.in.total
                              /\ probe.in.bk[1].free > probe.in.total
                    ELSE probe.in.free > probe.in.total

\* fits() refused a target with exactly twice the total free, the backup
\* being on the same disk.
C9_Witness ==
    /\ probe.op = "fits"
    /\ IsSome(probe.in.bk)
    /\ probe.in.bk[1].same_disk
    /\ probe.in.total > 0
    /\ probe.in.free = probe.in.total * 2
    /\ probe.out = FALSE

\* C10: fits_with(extra) is true exactly when the free space exceeds the total
\* plus the extra bytes: free > total + extra with no backup,
\* free > total * 2 + extra on one disk, both free > total + extra and
\* free_backup > total + extra on two.
C10_ExtraIsRequired ==
    probe.op = "fits_with" =>
        probe.out = IF IsSome(probe.in.bk)
                    THEN IF probe.in.bk[1].same_disk
                         THEN probe.in.free > probe.in.total * 2 + probe.in.size
                         ELSE /\ probe.in.free > probe.in.total + probe.in.size
                              /\ probe.in.bk[1].free > probe.in.total + probe.in.size
                    ELSE probe.in.free > probe.in.total + probe.in.size

\* fits_with(2) accepted a target with less free space than the total.
C10_Witness ==
    /\ probe.op = "fits_with"
    /\ ~IsSome(probe.in.bk)
    /\ probe.in.total = 2
    /\ probe.in.free = 1
    /\ probe.in.size = 2
    /\ probe.out = TRUE

\* ------------------------------------------------------------------------
\* Rename::next called on its own
\* ------------------------------------------------------------------------

MaxCalls == 3

MaxZeroes == 3

\* The variables of ingest(), with no call of it made.
Parked ==
    /\ personality = "async"
    /\ world = [tree |-> {}, unreadable |-> {},
                free |-> (Target0 :> 0) @@ (Backup0 :> 0), same_disk |-> FALSE]
    /\ structure = [kind |-> "Retain"]
    /\ target = Target0
    /\ backup = None
    /\ sources = <<>>
    /\ filter = FilterDefault
    /\ depth = MaxDepth
    /\ cancel = FALSE
    /\ m = [disk |-> {}, dirs |-> {<<"/">>, Cwd}, jpegs |-> {},
            rename |-> RenameDefault, progress |-> 0, log |-> <<>>,
            sighted |-> <<>>, observed |-> 0, copy_xmp |-> FALSE,
            copy_jpg |-> FALSE]
    /\ pc = "idle"
    /\ pass = "primary"
    /\ todo = <<>>
    /\ saved = [copy_xmp |-> FALSE, copy_jpg |-> FALSE]
    /\ result = "none"
    /\ call = NoCall

\* The Rename values next is called on.
RenameInputs ==
    [name : {None, Some("image")}, position : {"Prefix", "Suffix"},
     sequence : {0 - 1, 0, 9}, zeroes : 0..MaxZeroes]

\* The paths next is called with: two with a file stem, three without.
RenamePaths ==
    {<<"src", "a.cr2">>, <<"src", "b">>, <<"/">>, <<"src", "..">>, <<>>}

InitRename ==
    /\ Parked
    /\ \E r \in RenameInputs : probe = [op |-> "rename", rename |-> r, calls |-> 0]

\* One call of Rename::next: the Rename before it, its argument, what it
\* returned and the Rename after it.
CallNext ==
    /\ probe.op = "rename"
    /\ probe.calls < MaxCalls
    /\ \E p \in RenamePaths :
          LET r == rename_next(probe.rename, p)
          IN  probe' = [op |-> "rename", rename |-> r.rename,
                        calls |-> probe.calls + 1, before |-> probe.rename,
                        path |-> p, stem |-> r.stem]
    /\ UNCHANGED Rest

NextRename == CallNext

SpecRename == InitRename /\ [][NextRename]_vars

\* ------------------------------------------------------------------------
\* C11, on SpecRename
\* ------------------------------------------------------------------------

\* The stem Rename::file_stem builds for a name and a sequence number.
StemOf(r, name) ==
    IF r.position = "Suffix"
    THEN name \o "-" \o FormatPadded(r.sequence, r.zeroes)
    ELSE FormatPadded(r.sequence, r.zeroes) \o "-" \o name

\* C11: a call of Rename::next that returns a stem has built it from the
\* sequence it found and leaves the sequence one higher; a call that fails
\* leaves the sequence as it found it; nothing else of the Rename changes.
C11_NextAdvancesOnSuccess ==
    (probe.op = "rename" /\ probe.calls > 0) =>
        /\ IsSome(probe.stem) =>
              /\ probe.rename.sequence = probe.before.sequence + 1
              /\ \E name \in {"image", "a", "b"} :
                    probe.stem[1] = StemOf(probe.before, name)
        /\ ~IsSome(probe.stem) => probe.rename.sequence = probe.before.sequence
        /\ probe.rename = [probe.before EXCEPT !.sequence = probe.rename.sequence]

\* A failed call between two calls that succeeded: the numbers 9 and 10 were
\* given out and the sequence stands at 11.
C11_Witness ==
    /\ probe.op = "rename"
    /\ probe.calls = 3
    /\ probe.rename.sequence = 11
    /\ probe.before.sequence = 10
    /\ probe.rename.zeroes = 3
    /\ probe.rename.position = "Prefix"
    /\ probe.stem = Some("010-a")

\* ------------------------------------------------------------------------
\* C12
\* ------------------------------------------------------------------------

\* The files the current pass wrote by a primary copy.
WrittenInPass == {e \in CopyEvents : e.ok /\ e.kind = "primary" /\ e.pass = pass}

\* C12: in a pass under Structure::Rename that no cancellation disturbs, the
\* sequence has advanced once for every file written, so the numbers given
\* out are those of the files written and an entry whose copy failed has
\* taken none.
C12_OneNumberPerFile ==
    (structure.kind = "Rename" /\ ~cancel /\ pc # "idle" /\ result # "InsufficientSpace"
        /\ result # "NotEnoughSpace")
    => m.rename.sequence - start_rename.sequence = Cardinality(WrittenInPass)

\* C12 when every entry with an extension is a file that can be read.
C12_OneNumberPerFileReadable ==
    (world.unreadable = {} /\ world.tree # TreeLink(Root)) => C12_OneNumberPerFile

\* The dangling link a.cr2 took the number 000 and b.png was written as
\* 001-b.png, the only file of the target.
C12_Witness ==
    /\ personality = "async"
    /\ structure.kind = "Rename"
    /\ world.tree = TreeLink(AbsRoot)
    /\ CleanRun
    /\ ~cancel
    /\ PrimaryPassOver
    /\ NamesIn(Target0) = {"001-b.png"}
    /\ m.rename.sequence = 2

\* ------------------------------------------------------------------------
\* C13
\* ------------------------------------------------------------------------

\* What is left of a run of ingest(): the passes, the stages of the pass,
\* the entries of the walk, and the one store to the cancellation flag.
Rank ==
    (IF pass = "primary" THEN 1000 ELSE 0)
    + (CASE pc = "idle" -> 400 [] pc = "walk" -> 300 [] pc = "check" -> 200
         [] pc = "backup" -> 100 [] pc = "done" -> 0)
    + 2 * Len(todo)
    + (IF cancel THEN 0 ELSE 1)

\* C13: the backup pass runs against the former backup path with the backup
\* field None, and only when a backup was configured; a pass starts only at
\* the call and once more after the whole primary pass (walk and drain), so
\* there is no third pass and no return to the primary one; an ingest() that
\* returns Ok with a backup configured has run the backup pass; and ingest()
\* terminates: every step leaves less to do, and nothing is left only when
\* it has returned.
C13_TwoPassesThenStop ==
    /\ [](pass = "backup" =>
              /\ IsSome(call.backup)
              /\ backup = None
              /\ target = call.backup[1])
    /\ []((call.made /\ ~IsSome(call.backup)) => (pass = "primary" /\ target = call.target))
    /\ [][(pc' = "walk" /\ pc # "walk") =>
              \/ pc = "idle" /\ pass' = "primary"
              \/ pc = "backup" /\ pass = "primary" /\ pass' = "backup" /\ todo = <<>>]_vars
    /\ [][pass' # pass => (pc' = "walk" /\ pc # "walk")]_vars
    /\ []((pc = "done" /\ result = "Ok" /\ IsSome(call.backup)) => pass = "backup")
    /\ [][Rank' < Rank]_vars
    /\ [](Rank = 0 => pc = "done")


\* ingest() returned Ok after two passes: the three files are in the target
\* and in the backup, and the backup field is None.
C13_Witness ==
    /\ pc = "done"
    /\ result = "Ok"
    /\ pass = "backup"
    /\ IsSome(call.backup)
    /\ backup = None
    /\ Cardinality(FilesIn(Target0)) >= 3
    /\ Cardinality(FilesIn(Backup0)) >= 3

\* ------------------------------------------------------------------------
\* C14
\* ------------------------------------------------------------------------

C14_SetEmptied == (pc \in {"check", "backup"} \/ result = "Ok") => m.jpegs = {}

C15_FlagsRestoredPrimaryOk ==
    (personality = "async" /\ pc = "done" /\ result = "Ok"
        /\ ~IsSome(call.backup))
    => (m.copy_xmp = call.copy_xmp /\ m.copy_jpg = call.copy_jpg)

MaxSize == 3

\* The filters: each field of the struct takes the values that tell the
\* branches of matches apart.
FilterInputs ==
    [extensions : {{}, {""}, {"jpg"}, {"jpg", ""}, {"xmp", "cr2"}},
     min_size : {0, 1},
     max_size : {MaxSize - 1, U64_MAX},
     ignore_hidden : BOOLEAN]

\* The paths: extensions in several casings, a junk extension, no extension,
\* hidden names, a junk stem, and a path with no file name.
FilterPaths ==
    {<<"src", "a.jpg">>, <<"src", "a.JPG">>, <<"src", "a.Jpg">>,
     <<"src", "b.cr2">>, <<"src", "b.CR2">>,
     <<"src", "c.xmp">>, <<"src", "c.XMP">>,
     <<"src", "d">>, <<"src", ".e">>, <<"src", ".h.jpg">>, <<"src", ".h.JPG">>,
     <<"src", "IndexerVolumeGuid">>, <<"src", "..">>}

\* What path.metadata() gives: a length, or None for its error.
FilterMetas == {None} \cup {Some(n) : n \in 0..MaxSize}

InitFilter ==
    /\ Parked
    /\ \E f \in FilterInputs :
          probe = [op |-> "matches", filter |-> f, path |-> <<>>, meta |-> None,
                   called_async |-> FALSE, async |-> None,
                   called_sync |-> FALSE, sync |-> None]

\* matches of ingest/async.rs is called.  A call on the path of the last
\* call leaves the other build's result for that path in place.
CallMatchesAsync ==
    /\ probe.op = "matches"
    /\ \E p \in FilterPaths, meta \in FilterMetas :
          LET r == matches_async(probe.filter, p, meta)
          IN  probe' = IF p = probe.path /\ meta = probe.meta
                       THEN [probe EXCEPT !.called_async = TRUE, !.async = r]
                       ELSE [probe EXCEPT !.path = p, !.meta = meta,
                                          !.called_async = TRUE, !.async = r,
                                          !.called_sync = FALSE, !.sync = None]
    /\ UNCHANGED Rest

\* matches of ingest/sync.rs and lib.rs is called.
CallMatchesSync ==
    /\ probe.op = "matches"
    /\ \E p \in FilterPaths, meta \in FilterMetas :
          LET r == matches_sync(probe.filter, p, meta)
          IN  probe' = IF p = probe.path /\ meta = probe.meta
                       THEN [probe EXCEPT !.called_sync = TRUE, !.sync = r]
                       ELSE [probe EXCEPT !.path = p, !.meta = meta,
                                          !.called_sync = TRUE, !.sync = r,
                                          !.called_async = FALSE, !.async = None]
    /\ UNCHANGED Rest

NextFilter == CallMatchesAsync \/ CallMatchesSync

SpecFilter == InitFilter /\ [][NextFilter]_vars

\* The two paths differ at most in the letter case of the extension.
SameButExtensionCase(p, q) ==
    /\ parent(p) = parent(q)
    /\ file_stem(p) = file_stem(q)
    /\ IsSome(extension(p))
    /\ IsSome(extension(q))
    /\ to_ascii_lowercase(extension(p)[1]) = to_ascii_lowercase(extension(q)[1])

InBounds(f, meta) ==
    IsSome(meta) /\ meta[1] >= f.min_size /\ meta[1] <= f.max_size

CalledAsync == probe.op = "matches" /\ probe.called_async

CalledSync == probe.op = "matches" /\ probe.called_sync

\* ------------------------------------------------------------------------
\* C16
\* ------------------------------------------------------------------------

\* C16: whatever matches returned for a path, either build returns the same
\* for every path that differs from it only in the letter case of its
\* extension, the filter and the metadata being the same.
C16_CaseInsensitive ==
    /\ CalledAsync =>
          \A q \in FilterPaths :
              SameButExtensionCase(probe.path, q) =>
                  matches_async(probe.filter, q, probe.meta) = probe.async
    /\ CalledSync =>
          \A q \in FilterPaths :
              SameButExtensionCase(probe.path, q) =>
                  matches_sync(probe.filter, q, probe.meta) = probe.sync

\* a.JPG was accepted by both builds under a filter that lists "jpg".
C16_Witness ==
    /\ CalledAsync
    /\ CalledSync
    /\ probe.path = <<"src", "a.JPG">>
    /\ "jpg" \in probe.filter.extensions
    /\ probe.async = Some(TRUE)
    /\ probe.sync = Some(TRUE)

\* ------------------------------------------------------------------------
\* C17
\* ------------------------------------------------------------------------

\* The rejections that stand before the extension test: a hidden path under
\* ignore_hidden, and a stem of the junk tables.
HiddenOrJunk(f, p) ==
    \/ f.ignore_hidden /\ is_hidden(p)
    \/ /\ IsSome(file_stem(p))
       /\ to_ascii_lowercase(file_stem(p)[1]) \in TRASH_FILES \cup TRASH_FOLDERS

\* What a filter with extensions {""} is to accept: a path with no extension,
\* of a size within the bounds, that is neither hidden nor junk.
ExtensionlessInBounds(f, p, meta) ==
    /\ ~IsSome(extension(p))
    /\ InBounds(f, meta)
    /\ ~HiddenOrJunk(f, p)

\* C17: with extensions exactly {""}, matches accepts a path if and only if
\* it has no extension, its size is within the bounds and it is neither
\* hidden nor junk; in particular it accepts no path with an extension.
C17_EmptyStringOnly ==
    /\ (CalledAsync /\ probe.filter.extensions = {""}) =>
          (probe.async = Some(TRUE)
              <=> ExtensionlessInBounds(probe.filter, probe.path, probe.meta))
    /\ (CalledSync /\ probe.filter.extensions = {""}) =>
          (probe.sync = Some(TRUE)
              <=> ExtensionlessInBounds(probe.filter, probe.path, probe.meta))

\* The half of C17 that sync.rs keeps: with extensions {""} it accepts no
\* path that has an extension.
C17_NoExtensionSync ==
    (CalledSync /\ probe.filter.extensions = {""} /\ probe.sync = Some(TRUE))
    => ~IsSome(extension(probe.path))

\* async.rs, extensions {""}: a.jpg, visible and within the bounds, is
\* accepted.
C17_Witness ==
    /\ CalledAsync
    /\ probe.filter.extensions = {""}
    /\ probe.path = <<"src", "a.jpg">>
    /\ InBounds(probe.filter, probe.meta)
    /\ probe.async = Some(TRUE)

\* ------------------------------------------------------------------------
\* C18
\* ------------------------------------------------------------------------

\* C18: a path with no extension is accepted only when its size is within
\* [min_size, max_size], with extensions empty as well as with "" in it.
C18_ExtensionlessInBounds ==
    /\ (CalledAsync /\ ~IsSome(extension(probe.path)) /\ probe.async = Some(TRUE))
          => InBounds(probe.filter, probe.meta)
    /\ (CalledSync /\ ~IsSome(extension(probe.path)) /\ probe.sync = Some(TRUE))
          => InBounds(probe.filter, probe.meta)

\* C18 on lib.rs and sync.rs, and on async.rs when extensions is not empty.
C18_ExtensionlessInBoundsParenthesised ==
    /\ (CalledSync /\ ~IsSome(extension(probe.path)) /\ probe.sync = Some(TRUE))
          => InBounds(probe.filter, probe.meta)
    /\ (CalledAsync /\ ~IsSome(extension(probe.path)) /\ probe.async = Some(TRUE)
           /\ probe.filter.extensions # {})
          => InBounds(probe.filter, probe.meta)

\* async.rs, extensions empty: d, of a size above max_size, is accepted.
C18_Witness ==
    /\ CalledAsync
    /\ probe.filter.extensions = {}
    /\ probe.path = <<"src", "d">>
    /\ IsSome(probe.meta)
    /\ probe.meta[1] > probe.filter.max_size
    /\ probe.async = Some(TRUE)

\* ------------------------------------------------------------------------
\* C19
\* ------------------------------------------------------------------------

\* A path that passes every test of matches but the hidden one, in either
\* build: its lowercased extension is listed and is no junk extension, its
\* stem is no junk name, and its size is within the bounds.
Eligible(f, p, meta) ==
    /\ IsSome(extension(p))
    /\ to_ascii_lowercase(extension(p)[1]) \in f.extensions
    /\ to_ascii_lowercase(extension(p)[1]) \notin TRASH_EXT
    /\ to_ascii_lowercase(file_stem(p)[1]) \notin TRASH_FILES \cup TRASH_FOLDERS
    /\ InBounds(f, meta)

\* C19: a path that passes the extension and size tests is rejected only
\* when ignore_hidden is set and the path is hidden; with ignore_hidden unset
\* it is accepted, hidden or not.
C19_HiddenCheck ==
    /\ (CalledAsync /\ Eligible(probe.filter, probe.path, probe.meta)) =>
          (probe.async = Some(FALSE)
              <=> (probe.filter.ignore_hidden /\ is_hidden(probe.path)))
    /\ (CalledSync /\ Eligible(probe.filter, probe.path, probe.meta)) =>
          (probe.sync = Some(FALSE)
              <=> (probe.filter.ignore_hidden /\ is_hidden(probe.path)))

\* C19 on async.rs alone.
C19_HiddenCheckAsync ==
    (CalledAsync /\ Eligible(probe.filter, probe.path, probe.meta)) =>
        /\ probe.async \in {Some(TRUE), Some(FALSE)}
        /\ probe.async = Some(FALSE)
              <=> (probe.filter.ignore_hidden /\ is_hidden(probe.path))

\* lib.rs and sync.rs with ignore_hidden unset: a.jpg, visible, listed and
\* within the bounds, is rejected.
C19_Witness ==
    /\ CalledSync
    /\ ~probe.filter.ignore_hidden
    /\ probe.path = <<"src", "a.jpg">>
    /\ Eligible(probe.filter, probe.path, probe.meta)
    /\ probe.sync = Some(FALSE)

\* lib.rs and sync.rs with ignore_hidden unset: a hidden file is not
\* rejected for being hidden.
C19_HiddenKeptSync ==
    (CalledSync /\ Eligible(probe.filter, probe.path, probe.meta)
        /\ ~probe.filter.ignore_hidden /\ is_hidden(probe.path))
    => probe.sync = Some(TRUE)

\* ------------------------------------------------------------------------
\* C20
\* ------------------------------------------------------------------------

\* C20: called with the same filter on the same path, the matches of
\* sync.rs and the matches of async.rs return the same value.
C20_SameMatches ==
    (CalledAsync /\ CalledSync) => probe.async = probe.sync

\* Where the two builds do agree: a path that passes every test but the
\* hidden one, under a filter with ignore_hidden set.
C20_SameMatchesEligible ==
    (CalledAsync /\ CalledSync /\ probe.filter.ignore_hidden
        /\ Eligible(probe.filter, probe.path, probe.meta))
    => probe.async = probe.sync

\* The default filter's shape (no extension listed, ignore_hidden set):
\* a.jpg, visible and within the bounds, is accepted by async.rs and rejected
\* by sync.rs.
C20_Witness ==
    /\ CalledAsync
    /\ CalledSync
    /\ probe.filter.extensions = {}
    /\ probe.filter.ignore_hidden
    /\ probe.path = <<"src", "a.jpg">>
    /\ InBounds(probe.filter, probe.meta)
    /\ probe.async = Some(TRUE)
    /\ probe.sync = Some(FALSE)

\* ------------------------------------------------------------------------
\* C21
\* ------------------------------------------------------------------------

\* C21: no step of ingest() lowers the progress counter or sets it back:
\* not the steps of a pass, not the step from the primary pass to the backup
\* pass, not a step taken once the cancellation flag is set.
C21_ProgressMonotone == [][m'.progress >= m.progress]_vars

\* The backup pass has counted an entry on top of those of the primary pass,
\* which counted every entry of the walk.
C21_Witness ==
    /\ personality = "async"
    /\ pass = "backup"
    /\ pc = "walk"
    /\ Len(walk_from(sources)) > 0
    /\ m.progress > Len(walk_from(sources))

\* The counter stands where it stood when the flag was observed: ingest()
\* has returned Cancelled after counting an entry.
C21_WitnessCancelled ==
    /\ personality = "async"
    /\ pc = "done"
    /\ result = "Cancelled"
    /\ m.progress > 0

\* ------------------------------------------------------------------------
\* C22
\* ------------------------------------------------------------------------

PrimaryCopies == {i \in DOMAIN m.log : m.log[i].op = "copy" /\ m.log[i].kind = "primary"}

\* What the counter of async.rs does count: the entries that reached the
\* last fs::copy of ingest_copy, whether or not that copy succeeded.
C22_CountsCopyAttempts ==
    personality = "async" => m.progress = Cardinality(PrimaryCopies)

JpegEntries ==
    {File(AbsRoot \o <<"a.jpg">>, 1), File(AbsRoot \o <<"a.jpeg">>, 1),
     File(AbsRoot \o <<"b.jpeg">>, 1), File(AbsRoot \o <<"c.JPG">>, 1),
     Dir(AbsRoot \o <<"d.jpg">>), Link(AbsRoot \o <<"l.jpg">>),
     File(RelRoot \o <<"r.jpg">>, 1)}

\* The paths the function is called on.
JpegPaths ==
    {AbsRoot \o <<"a.cr2">>, AbsRoot \o <<"a.jpg">>, AbsRoot \o <<"a.JPG">>,
     AbsRoot \o <<"a.Jpeg">>, AbsRoot \o <<"a">>, AbsRoot \o <<"b.nef">>,
     AbsRoot \o <<"c.cr2">>, AbsRoot \o <<"d.cr2">>, AbsRoot \o <<"l.cr2">>,
     RelRoot \o <<"r.cr2">>, AbsRoot \o <<"..">>}

InitJpeg ==
    /\ personality = "async"
    /\ \E held \in SUBSET JpegEntries :
          world = [tree |-> {Dir(AbsRoot), Dir(RelRoot)} \cup held,
                   unreadable |-> {},
                   free |-> (Target0 :> 0) @@ (Backup0 :> 0),
                   same_disk |-> FALSE]
    /\ structure = [kind |-> "Retain"]
    /\ target = Target0
    /\ backup = None
    /\ sources = <<>>
    /\ filter = FilterDefault
    /\ depth = MaxDepth
    /\ cancel = FALSE
    /\ m = [disk |-> {}, dirs |-> {<<"/">>, Cwd}, jpegs |-> {},
            rename |-> RenameDefault, progress |-> 0, log |-> <<>>,
            sighted |-> <<>>, observed |-> 0, copy_xmp |-> FALSE,
            copy_jpg |-> FALSE]
    /\ pc = "idle"
    /\ pass = "primary"
    /\ todo = <<>>
    /\ saved = [copy_xmp |-> FALSE, copy_jpg |-> FALSE]
    /\ result = "none"
    /\ call = NoCall
    /\ probe = [op |-> "jpeg", called |-> FALSE, path |-> <<>>, out |-> None]

\* accompanying_jpeg is called.
CallAccompanyingJpeg ==
    /\ probe.op = "jpeg"
    /\ \E p \in JpegPaths :
          probe' = [op |-> "jpeg", called |-> TRUE, path |-> p,
                    out |-> accompanying_jpeg(p)]
    /\ UNCHANGED Rest

NextJpeg == CallAccompanyingJpeg

SpecJpeg == InitJpeg /\ [][NextJpeg]_vars

\* ------------------------------------------------------------------------
\* C23
\* ------------------------------------------------------------------------

\* The entries of the tree that exist beside p under its stem with the
\* extension jpg or jpeg.
CompanionsOf(p) ==
    {e \in world.tree :
        /\ e.kind # "symlink"
        /\ Absolute(parent(e.path)[1]) = Absolute(parent(p)[1])
        /\ file_stem(e.path) = file_stem(p)
        /\ extension(e.path) \in {Some("jpg"), Some("jpeg")}}

\* C23: accompanying_jpeg fails on a path with no extension and on a path
\* whose extension is jpg or jpeg in any letter case; when it succeeds, what
\* it returns is the resolved path of an entry that exists beside the path
\* under the same stem with the extension jpg or jpeg.
C23_AccompanyingJpeg ==
    (probe.op = "jpeg" /\ probe.called) =>
        /\ ~IsSome(extension(probe.path)) => probe.out = None
        /\ (IsSome(extension(probe.path))
               /\ to_ascii_lowercase(extension(probe.path)[1]) \in {"jpg", "jpeg"})
           => probe.out = None
        /\ IsSome(probe.out) =>
               \E e \in CompanionsOf(probe.path) : probe.out[1] = Absolute(e.path)

\* src/r.cr2 has its companion: the call returned the resolved path of
\* src/r.jpg.
C23_Witness ==
    /\ probe.op = "jpeg"
    /\ probe.called
    /\ probe.path = RelRoot \o <<"r.cr2">>
    /\ probe.out = Some(Cwd \o RelRoot \o <<"r.jpg">>)

\* a.JPG is refused although a.jpg exists.
C23_WitnessRefused ==
    /\ probe.op = "jpeg"
    /\ probe.called
    /\ probe.path = AbsRoot \o <<"a.JPG">>
    /\ File(AbsRoot \o <<"a.jpg">>, 1) \in world.tree
    /\ probe.out = None

\* ------------------------------------------------------------------------
\* IngestorBuilder (lib.rs): a builder is made, its setters are called in
\* any order, and build consumes it.
\* ------------------------------------------------------------------------

\* IngestorBuilder::default.
BuilderDefault ==
    [structure |-> None, target |-> None, backup |-> None, sources |-> None,
     filter |-> None, copy_xmp |-> None, copy_jpg |-> None,
     ignore_hidden |-> None]

\* IngestorBuilder::images.
BuilderImages == [BuilderDefault EXCEPT !.filter = Some(FilterImages)]

\* IngestorBuilder::build with the two flags defaulting to false: the
\* variant the formula of C24 must tell from build.
build_flags_off(b) ==
    IF IsSome(b.structure) /\ IsSome(b.target) /\ IsSome(b.sources)
       /\ IsSome(b.filter)
    THEN [ok |-> TRUE,
          ingestor |-> [structure |-> b.structure[1], target |-> b.target[1],
                        sources |-> b.sources[1], filter |-> b.filter[1],
                        backup |-> b.backup,
                        copy_xmp |-> IF IsSome(b.copy_xmp) THEN b.copy_xmp[1] ELSE FALSE,
                        copy_jpg |-> IF IsSome(b.copy_jpg) THEN b.copy_jpg[1] ELSE FALSE,
                        jpegs |-> {}]]
    ELSE [ok |-> FALSE]

\* IngestorBuilder::build: Err unless structure, target, sources and filter
\* are all Some; the rest of the Ingestor comes from Default.
build(b) ==
    IF IsSome(b.structure) /\ IsSome(b.target) /\ IsSome(b.sources)
       /\ IsSome(b.filter)
    THEN [ok |-> TRUE,
          ingestor |-> [structure |-> b.structure[1], target |-> b.target[1],
                        sources |-> b.sources[1], filter |-> b.filter[1],
                        backup |-> b.backup,
                        copy_xmp |-> IF IsSome(b.copy_xmp) THEN b.copy_xmp[1] ELSE TRUE,
                        copy_jpg |-> IF IsSome(b.copy_jpg) THEN b.copy_jpg[1] ELSE TRUE,
                        jpegs |-> {}]]
    ELSE [ok |-> FALSE]

InitBuilder ==
    /\ Parked
    /\ \E b \in {BuilderDefault, BuilderImages} :
          probe = [op |-> "builder", builder |-> b]

\* One setter is called on the builder.
Set(field, v) ==
    /\ probe.op = "builder"
    /\ probe' = [probe EXCEPT !.builder[field] = Some(v)]
    /\ UNCHANGED Rest

WithStructure == \E st \in Structures : Set("structure", st)

WithTarget == \E t \in {Target0, Backup0} : Set("target", t)

WithSource == \E srcs \in {<<RelRoot>>, <<AbsRoot>>} : Set("sources", srcs)

CopyXmp == \E v \in BOOLEAN : Set("copy_xmp", v)

CopyJpg == \E v \in BOOLEAN : Set("copy_jpg", v)

WithBackup == Set("backup", Backup0)

\* build is called: the builder is consumed.
Build ==
    /\ probe.op = "builder"
    /\ probe' = [op |-> "built", builder |-> probe.builder,
                 out |-> build(probe.builder)]
    /\ UNCHANGED Rest

NextBuilder ==
    \/ WithStructure
    \/ WithTarget
    \/ WithSource
    \/ CopyXmp
    \/ CopyJpg
    \/ WithBackup
    \/ Build

SpecBuilder == InitBuilder /\ [][NextBuilder]_vars

\* ------------------------------------------------------------------------
\* C24
\* ------------------------------------------------------------------------

RequiredSet(b) ==
    IsSome(b.structure) /\ IsSome(b.target) /\ IsSome(b.sources) /\ IsSome(b.filter)

\* C24: build succeeds exactly when structure, target, sources and filter
\* are set; the Ingestor it returns has the four as given, copy_xmp and
\* copy_jpg as given or true, the backup as given or none, and an empty
\* pending set.
C24_Build ==
    probe.op = "built" =>
        /\ probe.out.ok <=> RequiredSet(probe.builder)
        /\ probe.out.ok =>
              /\ probe.out.ingestor.structure = probe.builder.structure[1]
              /\ probe.out.ingestor.target = probe.builder.target[1]
              /\ probe.out.ingestor.sources = probe.builder.sources[1]
              /\ probe.out.ingestor.filter = probe.builder.filter[1]
              /\ probe.builder.copy_xmp = None => probe.out.ingestor.copy_xmp
              /\ probe.builder.copy_jpg = None => probe.out.ingestor.copy_jpg
              /\ probe.builder.copy_xmp # None =>
                    probe.out.ingestor.copy_xmp = probe.builder.copy_xmp[1]
              /\ probe.builder.copy_jpg # None =>
                    probe.out.ingestor.copy_jpg = probe.builder.copy_jpg[1]
              /\ probe.out.ingestor.backup = probe.builder.backup
              /\ probe.out.ingestor.jpegs = {}

\* A builder with the four fields set and neither flag nor backup given was
\* built.
C24_Witness ==
    /\ probe.op = "built"
    /\ probe.out.ok
    /\ probe.builder.copy_xmp = None
    /\ probe.builder.copy_jpg = None
    /\ probe.builder.backup = None
    /\ probe.out.ingestor.copy_xmp
    /\ probe.out.ingestor.copy_jpg
    /\ probe.out.ingestor.backup = None

\* build failed on a builder that lacks the filter alone.
C24_WitnessMissing ==
    /\ probe.op = "built"
    /\ ~probe.out.ok
    /\ IsSome(probe.builder.structure)
    /\ IsSome(probe.builder.target)
    /\ IsSome(probe.builder.sources)
    /\ ~IsSome(probe.builder.filter)

\* ------------------------------------------------------------------------
\* C25
\* ------------------------------------------------------------------------

\* The sightings of a key in the pass that is running.
SightingsOf(k) ==
    {i \in DOMAIN m.sighted : m.sighted[i].key = k /\ m.sighted[i].pass = pass}

SightedKeys == {m.sighted[i].key : i \in DOMAIN m.sighted}

\* C25: while a pass walks, a key is in the pending set exactly when it has
\* been sighted an odd number of times in that pass, by map_entry on the
\* JPEG itself or by ingest_copy on a file it accompanies; and the step on a
\* JPEG entry whose key is in the set removes the key, copies nothing and
\* leaves the rename sequence where it was.
C25_Toggle ==
    /\ [](pc = "walk" =>
             \A k \in SightedKeys \cup m.jpegs :
                 k \in m.jpegs <=> Cardinality(SightingsOf(k)) % 2 = 1)
    /\ [][(/\ pc = "walk"
           /\ todo # <<>>
           /\ todo' # todo
           /\ structure.kind = "Rename"
           /\ is_jpeg(Head(todo)[2])
           /\ Head(todo)[2] \in m.jpegs)
          => /\ m'.jpegs = m.jpegs \ {Head(todo)[2]}
             /\ m'.rename = m.rename
             /\ m'.log = m.log
             /\ m'.disk = m.disk]_vars

\* a.jpg was sighted twice under one key, by ingest_copy of a.cr2 and then
\* by map_entry, which found the key and skipped the entry: the key is out
\* of the set and one number was given out.
C25_Witness ==
    /\ personality = "async"
    /\ structure.kind = "Rename"
    /\ pc = "walk"
    /\ pass = "primary"
    /\ Cardinality(SightingsOf(AbsRoot \o <<"a.jpg">>)) = 2
    /\ \E i \in DOMAIN m.sighted :
          /\ m.sighted[i].by = "map_entry"
          /\ m.sighted[i].present
          /\ m.sighted[i].key = AbsRoot \o <<"a.jpg">>
    /\ AbsRoot \o <<"a.jpg">> \notin m.jpegs
    /\ m.rename.sequence = start_rename.sequence + 1

\* ------------------------------------------------------------------------
\* C26
\* ------------------------------------------------------------------------

\* C26: a file is copied in the backup pass only if the free space at the
\* backup target is strictly greater than the total size of the matching
\* files; when it is not, the call ends with InsufficientSpace.
C26_BackupPreflight ==
    (call.made /\ IsSome(call.backup)) =>
        /\ \A e \in CopyEvents :
              e.pass = "backup" => free_space_of(call.backup[1]) > total_size
        /\ (pc = "done" /\ target = call.backup[1]
               /\ ~(free_space_of(call.backup[1]) > total_size))
           => result = "InsufficientSpace"

\* C26 on async.rs, where backup() is reached only after fits() has required
\* more than the total size at the backup target.
C26_BackupPreflightAsync == personality = "async" => C26_BackupPreflight

\* sync.rs copied into a backup target whose free space equals the total
\* size.
C26_Witness ==
    /\ personality = "sync"
    /\ call.made
    /\ IsSome(call.backup)
    /\ total_size > 0
    /\ free_space_of(call.backup[1]) = total_size
    /\ \E e \in CopyEvents : e.pass = "backup" /\ e.ok /\ e.target = call.backup[1]

\* ------------------------------------------------------------------------
\* C27
\* ------------------------------------------------------------------------

\* The walk of async.rs over a list of entries, from the state mm.
RECURSIVE walk_all(_, _)
walk_all(mm, entries) ==
    IF entries = <<>> THEN mm
    ELSE walk_all(map_entry(mm, Head(entries)[1], Head(entries)[2]), Tail(entries))

Reversed(s) == [i \in 1..Len(s) |-> s[Len(s) + 1 - i]]

\* The destination of every source file on a disk.
DestinationsOf(mm) == {<<f.from, f.path>> : f \in mm.disk}

\* A primary pass of async.rs is about to walk, into an empty target, with
\* every source file readable and nobody cancelling.
AtPassStart ==
    /\ personality = "async"
    /\ pc = "walk"
    /\ pass = "primary"
    /\ todo = walk_from(sources)
    /\ CleanRun
    /\ m.disk = {}
    /\ ~cancel

\* C27: the walk that is about to run and the walk of a run that visits the
\* source roots in the other order give every source file the same
\* destination.
C27_Deterministic ==
    AtPassStart =>
        DestinationsOf(walk_all(m, walk_from(sources)))
            = DestinationsOf(walk_all(m, walk_from(Reversed(sources))))

\* C27 for every structure but Rename, the roots holding no two files of
\* one name.
C27_DeterministicUnlessRenamed ==
    structure.kind # "Rename" => C27_Deterministic

\* walk_all is the walk of the model: a step on an entry leaves what
\* walk_all makes of the entries that remain.
C27_WalkAllIsTheWalk ==
    [][(personality = "async" /\ pc = "walk" /\ todo # <<>> /\ todo' # todo)
       => walk_all(m', todo') = walk_all(m, todo)]_vars

\* Under Rename the root /mnt/disk was visited first: b.cr2 is 000-b.cr2 and
\* a.cr2 is 001-a.cr2, where the other order gives 000-a.cr2 and 001-b.cr2.
C27_Witness ==
    /\ personality = "async"
    /\ structure.kind = "Rename"
    /\ sources = <<OtherRoot, AbsRoot>>
    /\ CleanRun
    /\ ~cancel
    /\ pc = "check"
    /\ [path |-> Absolute(Target0) \o <<"000-b.cr2">>, from |-> OtherRoot \o <<"b.cr2">>]
          \in m.disk
    /\ [path |-> Absolute(Target0) \o <<"001-a.cr2">>, from |-> AbsRoot \o <<"a.cr2">>]
          \in m.disk

\* ------------------------------------------------------------------------
\* C28
\* ------------------------------------------------------------------------

\* The paths files() returns.
FilesSet == {files[i] : i \in DOMAIN files}

\* The paths the walk of ingest() hands to map_entry.
WalkedSet == {walk_from(sources)[i][2] : i \in DOMAIN walk_from(sources)}

\* The regular files among them.
WalkedFiles == {p \in WalkedSet : KindOf(world.tree, p) = "file"}

\* C28: in async.rs files() returns regular files only, and exactly those
\* the walk of ingest() hands to map_entry: none that lies under a directory
\* the walk prunes.
C28_FilesAreTheWalkedFiles ==
    personality = "async" =>
        /\ \A p \in FilesSet : KindOf(world.tree, p) = "file"
        /\ FilesSet = WalkedFiles

\* The half of C28 that holds: every regular file the walk hands to
\* map_entry is in files().
C28_WalkedFilesAreCounted ==
    personality = "async" => WalkedFiles \subseteq FilesSet

\* With the images filter the walk pruned the source root, whose name has
\* no extension, and copied nothing; files() holds the three files below it,
\* which the preflight has summed.
C28_Witness ==
    /\ personality = "async"
    /\ filter = FilterImages
    /\ world.tree = TreePair(AbsRoot)
    /\ pc = "check"
    /\ ~cancel
    /\ WalkedSet = {}
    /\ CopyEvents = {}
    /\ Cardinality(FilesSet) = 3
    /\ total_size = 4

\* With the default filter files() holds the source directory itself.
C28_WitnessDirectory ==
    /\ personality = "async"
    /\ filter = FilterDefault
    /\ call.made
    /\ \E p \in FilesSet : KindOf(world.tree, p) = "dir"

\* ------------------------------------------------------------------------
\* C29
\* ------------------------------------------------------------------------

\* A pass of async.rs under Rename with copy_jpg set is over, from a
\* canonical source root, into an empty target, with nothing failing or
\* cancelled, and the RAW file of the pair was ingested.
PairIngested(raw) ==
    /\ personality = "async"
    /\ structure.kind = "Rename"
    /\ call.copy_jpg
    /\ CleanRun
    /\ ~cancel
    /\ PrimaryPassOver
    /\ Absolute(Root) = Root
    /\ ArtifactsOf(Root \o <<raw>>) # {}

\* C29: the pair leaves one copy of a.jpg in the target, when the RAW file
\* sorts before it (a.cr2, a.jpg) and when it sorts after it (a.jpg, a.nef).
C29_OneJpegEitherOrder ==
    /\ (world.tree = TreePair(Root) /\ PairIngested("a.cr2"))
          => Cardinality(ArtifactsOf(Root \o <<"a.jpg">>)) = 1
    /\ (world.tree = TreeRawLast(Root) /\ PairIngested("a.nef"))
          => Cardinality(ArtifactsOf(Root \o <<"a.jpg">>)) = 1

\* C29 for the RAW file that sorts first.
C29_OneJpegRawFirst ==
    (world.tree = TreePair(Root) /\ PairIngested("a.cr2"))
    => Cardinality(ArtifactsOf(Root \o <<"a.jpg">>)) = 1

\* a.jpg came first and was copied as 000-a.jpg; a.nef then found the key in
\* the set, removed it and copied a.jpg again, as 001-a.jpg.
C29_Witness ==
    /\ world.tree = TreeRawLast(Root)
    /\ PairIngested("a.nef")
    /\ {f.path[Len(f.path)] : f \in ArtifactsOf(Root \o <<"a.jpg">>)}
           = {"000-a.jpg", "001-a.jpg"}
    /\ m.jpegs = {}

\* ------------------------------------------------------------------------
\* C30
\* ------------------------------------------------------------------------

\* The source and the name of every file written directly in a directory.
RenamedIn(dir) ==
    {<<f.from, f.path[Len(f.path)]>> :
        f \in {g \in FilesIn(dir) : Len(g.path) = Len(Absolute(dir)) + 1}}

\* C30: no step changes the structure of the Ingestor; every pass starts
\* numbering from the sequence the structure holds; and when both passes
\* have run under Rename into empty destinations with nothing failing,
\* every source file has the same name in the backup as in the target.
C30_RenameIsPrivate ==
    /\ [][structure' = structure]_vars
    /\ [][(pc' = "walk" /\ pc # "walk") =>
             m'.rename = IF structure.kind = "Rename"
                         THEN structure.rename ELSE RenameDefault]_vars
    /\ []((/\ structure.kind = "Rename"
           /\ pc = "done"
           /\ result = "Ok"
           /\ pass = "backup"
           /\ CleanRun
           /\ ~cancel)
          => RenamedIn(call.backup[1]) = RenamedIn(call.target))

\* Both passes ran under Rename and wrote a file numbered 001 from the same
\* source file.
C30_Witness ==
    /\ structure.kind = "Rename"
    /\ pc = "done"
    /\ result = "Ok"
    /\ pass = "backup"
    /\ CleanRun
    /\ ~cancel
    /\ \E x \in RenamedIn(call.backup[1]) :
          /\ x \in RenamedIn(call.target)
          /\ IsPrefix("001", x[2])
    /\ m.rename.sequence > structure.rename.sequence

\* ------------------------------------------------------------------------
\* C31
\* ------------------------------------------------------------------------

\* ingest() has returned the error of a preflight: InsufficientSpace in
\* async.rs, the custom error "Not enough space" in sync.rs.
Refused == pc = "done" /\ result \in {"InsufficientSpace", "NotEnoughSpace"}

\* The preflight that refused was the one of the primary pass.
RefusedAtPrimary ==
    /\ Refused
    /\ IF personality = "async" THEN ~call.fits
       ELSE free_space_of(call.target) < total_size

\* C31: when ingest() has returned the error of a preflight, of the primary
\* pass or of the backup pass, target and backup are what they were when
\* ingest() was called.
C31_FieldsKeptOnRefusal ==
    Refused => (target = call.target /\ backup = call.backup)

\* C31 for the preflight of the primary pass.
C31_FieldsKeptAtPrimary ==
    RefusedAtPrimary => (target = call.target /\ backup = call.backup)

\* C31 on async.rs, where backup() is reached only after fits() has
\* required more than the total size at the backup target.
C31_FieldsKeptAsync == personality = "async" => C31_FieldsKeptOnRefusal

\* sync.rs copied into the target, then refused the backup for want of
\* space: the target is the backup directory and the backup is gone.
C31_Witness ==
    /\ personality = "sync"
    /\ Refused
    /\ call.target = Target0
    /\ call.backup = Some(Backup0)
    /\ free_space_of(Backup0) < total_size
    /\ target = Backup0
    /\ backup = None
    /\ \E e \in CopyEvents : e.ok /\ e.target = Target0

\* async.rs refused at the primary preflight with both fields as they were.
C31_WitnessPrimary ==
    /\ personality = "async"
    /\ RefusedAtPrimary
    /\ IsSome(call.backup)
    /\ target = call.target
    /\ backup = call.backup

====
